---- MODULE Spec2Model ----
(***************************************************************************)
(* The main app (src/api/index.js, lines 1-1361).                          *)
(*                                                                         *)
(* Spec          the payment-gated booking workflow: the Mollie webhook,   *)
(*               the finalize endpoint, the booking creation endpoints and *)
(*               createSimplyBookBooking with every upstream call it       *)
(*               awaits.                                                   *)
(* SpecToken     getSimplyBookTokenCached under a running clock and cache  *)
(*               purges, called by POST /api/available-units.              *)
(* SpecAvail     POST /api/service-availability.                           *)
(* SpecCategory  POST /api/category-availability with fetchServicesCached. *)
(* SpecServices  GET /api/services: fetchServicesCached under a running    *)
(*               clock, forced refreshes and cache purges.                 *)
(* SpecMatrix    normalizeTimeMatrix applied to one matrix in the forms    *)
(*               the provider may send it in.                              *)
(* SpecRestart   the webhook, finalize and initiate-booking-payment        *)
(*               endpoints of a process that may be restarted.             *)
(*                                                                         *)
(* The RPC router mounted at /api/sb (src/api/simplybook-rpc.router.js).   *)
(*                                                                         *)
(* SpecRouter    POST /book and POST /webhook/mollie with callSimplyBook.  *)
(* SpecRouterLive  the same with every call that can settle settling.      *)
(*                                                                         *)
(* Each await of the source is one step of a handler, so handlers of       *)
(* concurrent requests interleave exactly where Node.js lets them          *)
(* interleave.                                                             *)
(***************************************************************************)
EXTENDS Integers, Sequences, FiniteSets, TLC

\* ------------------------------------------------------------------ bounds
MaxHandlers == 2        \* requests in flight at the same time
MaxPayments == 1        \* payment ids the payment provider hands out
MaxSub == 2             \* sub-bookings in one upstream book result
MaxReservations == 2    \* reservations counted per payment id
MaxNow == 100           \* the clock stops here, minutes
TickMinutes == 25       \* minutes the clock advances in one step
MaxDay == 2             \* calendar dates the provider and the requests name
MaxTime == 2            \* times of day, in the order of their HH:MM strings
MaxLen == 2             \* entries of one list of the provider
MaxItems == 2           \* bookable items of the catalog
MaxCat == 2             \* categories of the catalog
MaxEvents == 2          \* events of one getEventListPublic answer
ShortTick == 1          \* minutes of a short step of the clock
MaxShortNow == 6        \* the short steps of the clock stop here, minutes
MaxRouterBookings == 2  \* reservations made through the router's /book
MaxConfirmCalls == 2    \* confirmBooking calls counted per booking of the router

\* --------------------------------------------------------------- constants
TokenTtl == 50          \* tokenCache.ttlMs = 1000 * 60 * 50, in minutes
ServicesTtl == 5        \* servicesCache.ttlMs = 1000 * 60 * 5, in minutes
DefaultWindow == 30     \* futureDate.getDate() + 30, in days

Handlers == 1..MaxHandlers
PaymentIds == 1..MaxPayments
NoPaymentId == 0        \* request body without a payment id

\* Shapes of a booking request, one per behaviour of createSimplyBookBooking:
\*   full        serviceId, datetime, clientData and performerId present
\*   noPerformer performerId omitted (resolved through getAvailableUnits)
\*   badDatetime datetime neither matches the ISO pattern nor parses
\*   incomplete  serviceId, datetime or clientData missing
\* A datetime that matches the ISO pattern is taken to name a calendar date.
ReqShapes == {"full", "noPerformer", "badDatetime", "incomplete"}
\* Bodies /api/create-booking rejects with 400 before doing anything.
InvalidBodies == {"noServiceId", "noDatetime", "noClientData"}
\* payment member of a create-booking body.
PayTerms == {"none", "amountOnly", "amountAndRedirect"}
\* Status values of a payment at the payment provider ("none": unknown id).
PayStatuses == {"open", "paid", "failed", "expired"}

VARIABLES
  mollieKeySet,                \* process.env.MOLLIE_API_KEY is configured
  secretSet,                   \* SIMPLYBOOK_API_SECRET is non-empty
  tokenCache,                  \* [token, fetchedAt]
  now,                         \* Date.now(), minutes
  pendingBookingsByPaymentId,  \* payment id -> request shape or "absent"
  processedPayments,           \* set of payment ids
  payStatus,                   \* payment provider: id -> status
  reservations,                \* scheduling provider: reservations created per payment id
  reportedPaid,                \* ids for which payments.get has answered paid
  okDone,                      \* id -> kinds of handlers that booked it and answered success
  h,                           \* handler slots: the requests in flight
  answered,                    \* the request answered by the latest step, if any
  servicesCache,               \* [data, fetchedAt]
  probe,                       \* one application of normalizeTimeMatrix
  registered,                  \* payment ids a booking request was ever stored under
  router                       \* the bookings and payment metadata of the RPC router

vars == <<mollieKeySet, secretSet, tokenCache, now, pendingBookingsByPaymentId,
          processedPayments, payStatus, reservations, reportedPaid, okDone, h,
          answered, servicesCache, probe, registered, router>>

NoResp == [code |-> 0, body |-> "none"]

\* servicesCache = { data: null, fetchedAt: 0, ... }; the empty sequence stands
\* for null, a list without items is never stored.
NoServices == [data |-> <<>>, fetchedAt |-> 0]

\* No matrix has been handed to normalizeTimeMatrix yet.
NoProbe == [input |-> <<>>, shape |-> "none", out |-> <<>>]

\* A date of a request body: absent, a string new Date() cannot read, or a
\* calendar date.
NoDate == [form |-> "absent", day |-> 0]
InvalidDate == [form |-> "invalid", day |-> 0]
DateOf(d) == [form |-> "date", day |-> d]

\* Locals of an availability handler; justified and seen are kept for the
\* claims: the slots the matching events of the fallback answer name, and the
\* slots of the member items resolved so far.  force is req.query.force of
\* GET /api/services.
NoAv ==
  [item |-> 0, category |-> 0, reqFrom |-> NoDate, reqTo |-> NoDate,
   stage |-> "none", matrixOut |-> "none", matrixDates |-> 0,
   eventsOut |-> "none",
   todo |-> <<>>, agg |-> <<>>, availability |-> <<>>,
   justified |-> {}, seen |-> {}, force |-> FALSE]

\* The scheduling provider and the payment provider as the router sees them:
\* booked counts the reservations its book calls created (their ids are
\* 1..booked), meta is metadata.booking_id of a payment (0: none), and
\* confirmCalls counts the confirmBooking calls issued for a booking.
NoRouter ==
  [booked |-> 0, meta |-> [p \in PaymentIds |-> 0],
   confirmCalls |-> [b \in 1..MaxRouterBookings |-> 0]]

IdleSlot ==
  [kind |-> "none", pid |-> NoPaymentId, pc |-> "idle", shape |-> "none",
   terms |-> "none", bodyStatus |-> "none", provStatus |-> "none",
   status |-> "none", resp |-> NoResp, calls |-> <<>>, bookOut |-> "none",
   sessOut |-> "none", requireConfirm |-> FALSE, left |-> 0,
   reserved |-> FALSE, added |-> FALSE, afterOk |-> FALSE,
   readToken |-> FALSE, readAge |-> 0, subs |-> 0, av |-> NoAv,
   client |-> "none", clientFailed |-> FALSE, authFailed |-> FALSE,
   booking |-> 0, hung |-> FALSE]

Boot ==
  /\ mollieKeySet \in BOOLEAN
  /\ secretSet \in BOOLEAN
  /\ tokenCache = [token |-> FALSE, fetchedAt |-> 0]
  /\ now = 0
  /\ pendingBookingsByPaymentId = [p \in PaymentIds |-> "absent"]
  /\ processedPayments = {}
  /\ payStatus = [p \in PaymentIds |-> "none"]
  /\ reservations = [p \in PaymentIds |-> 0]
  /\ reportedPaid = {}
  /\ okDone = [p \in PaymentIds |-> {}]
  /\ h = [r \in Handlers |-> IdleSlot]
  /\ answered = IdleSlot
  /\ servicesCache = NoServices
  /\ registered = {}
  /\ router = NoRouter

Init == Boot /\ probe = NoProbe

\* ------------------------------------------------------------ call counting
Count(seq, names) == Cardinality({i \in 1..Len(seq) : seq[i] \in names})

MollieCalls == {"payments.get", "payments.create"}
SimplyBookCalls == {"login", "getClients", "postClient", "getAvailableUnits",
                    "book", "bookSession", "confirmBooking", "getStartTimeMatrix",
                    "getEventListPublic", "getServiceListPublic", "getEventList",
                    "getAdminServices"}
BookingCalls == {"book", "bookSession"}

Call(s, name) == [s EXCEPT !.calls = Append(@, name)]

\* ------------------------------------------------------- handler responses
\* catch blocks of the handlers: every exception becomes a 500 answer.
ErrorResp(kind) ==
  CASE kind = "webhook"  -> [code |-> 500, body |-> "Webhook error"]
    [] kind = "finalize" -> [code |-> 500, body |-> "Failed to finalize booking"]
    [] kind = "create"   -> [code |-> 500, body |-> "Failed to create booking"]
    [] kind = "initiate" -> [code |-> 500, body |-> "Failed to create Mollie payment"]
    [] kind = "payment"  -> [code |-> 500, body |-> "Failed to create Mollie payment"]
    [] kind = "units"    -> [code |-> 500, body |-> "Failed to fetch available units"]
    [] kind = "service"  -> [code |-> 500, body |-> "Failed to fetch service availability"]
    [] kind = "category" -> [code |-> 500, body |-> "Failed to fetch category availability"]
    [] kind = "services" -> [code |-> 500, body |-> "Failed to fetch services from SimplyBook"]
    [] kind = "routerBook" -> [code |-> 500, body |-> "success: false"]
    [] kind = "routerWebhook" -> [code |-> 500, body |-> "Error"]

Respond(s, code, body) ==
  [s EXCEPT !.pc = "done", !.resp = [code |-> code, body |-> body]]

Thrown(s) == [s EXCEPT !.pc = "done", !.resp = ErrorResp(s.kind)]

\* The bookingResp createSimplyBookBooking returns carries an error member:
\* only the bookSession answer can, a book answer with an error is thrown
\* into the fallback.
RespHasError(s) == s.sessOut = "error"

\* What the handler does once createSimplyBookBooking has returned.
AfterBookingReturned(s) ==
  CASE s.kind = "webhook" ->
         [Respond(s, 200, "OK") EXCEPT !.added = TRUE]
    [] s.kind = "finalize" ->
         [Respond(s, 200, "success") EXCEPT !.added = TRUE]
    [] s.kind = "create" ->
         IF RespHasError(s) THEN Thrown(s)
         ELSE Respond(s, 200, "Booking created successfully")

\* ============================================== availability: the data
\* A calendar date is the rank of its YYYY-MM-DD string, a time of day the rank
\* of its zero-padded HH:MM string, so that the order of the numbers is the
\* order of the strings the code compares and sorts.  0 stands for a member
\* that is absent.
Days == 1..MaxDay
Times == 1..MaxTime

\* All sequences over S of length at most n.
SeqsUpTo(S, n) == UNION {[1..k -> S] : k \in 0..n}

\* Entries of a list of times of getStartTimeMatrix.
StringEntry(t) ==
  [k |-> "string", t |-> t, time |-> 0, start_time |-> 0, items |-> <<>>]
ObjectEntry(time, start) ==
  [k |-> "object", t |-> 0, time |-> time, start_time |-> start, items |-> <<>>]
ArrayEntry(items) ==
  [k |-> "array", t |-> 0, time |-> 0, start_time |-> 0, items |-> items]

\* The value the matrix holds for one date: an array or an object of entries.
ArrayValue(items) == [shape |-> "array", items |-> items]
ObjectValue(items) == [shape |-> "object", items |-> items]

\* Array.prototype.flat(): one level of nested arrays is spliced in.
RECURSIVE Flat(_)
Flat(seq) ==
  IF seq = <<>> THEN <<>>
  ELSE (IF Head(seq).k = "array" THEN Head(seq).items ELSE <<Head(seq)>>)
       \o Flat(Tail(seq))

\* t => typeof t === 'string' ? t : (t?.time || t?.start_time)
TimeOf(e) ==
  CASE e.k = "string" -> e.t
    [] e.k = "object" -> IF e.time # 0 THEN e.time ELSE e.start_time
    [] OTHER -> 0

\* Array.prototype.sort() on strings: ascending, equal values kept.
RECURSIVE Insert(_, _)
Insert(x, seq) ==
  IF seq = <<>> THEN <<x>>
  ELSE IF x <= Head(seq) THEN <<x>> \o seq
       ELSE <<Head(seq)>> \o Insert(x, Tail(seq))

RECURSIVE SortTimes(_)
SortTimes(seq) ==
  IF seq = <<>> THEN <<>> ELSE Insert(Head(seq), SortTimes(Tail(seq)))

\* Faulty variant: only an array is read, an object yields no slots.
SlotsOfArrayOnly(value) ==
  IF value.shape = "array" THEN value.items ELSE <<>>

\* if (Array.isArray(times)) slots = times;
\* else if (times && typeof times === 'object') slots = Object.values(times).flat();
SlotsOf(value) ==
  IF value.shape = "array" THEN value.items
  ELSE IF value.shape = "object" THEN Flat(value.items)
  ELSE <<>>

Day(date, times) ==
  [date |-> date, times |-> times, available_slots |-> Len(times)]

\* The slots of one date, mapped to strings and filtered with Boolean; a date
\* without slots is left out.
NormalizeDate(entry) ==
  LET raw == SlotsOf(entry.value)
      slots == SelectSeq([i \in 1..Len(raw) |-> TimeOf(raw[i])], LAMBDA t : t # 0)
  IN IF slots = <<>> THEN <<>> ELSE <<Day(entry.date, SortTimes(slots))>>

\* normalizeTimeMatrix(matrix): matrix is the sequence Object.entries(matrix).
RECURSIVE normalizeTimeMatrix(_)
normalizeTimeMatrix(matrix) ==
  IF matrix = <<>> THEN <<>>
  ELSE NormalizeDate(Head(matrix)) \o normalizeTimeMatrix(Tail(matrix))

\* ============================================ availability: the helpers
Items == 1..MaxItems
Categories == 1..MaxCat

Today == 1              \* new Date(): requests are made on the first date

\* An event of getEventListPublic: its identifier, its date and time fields and
\* its combined timestamp (YYYY-MM-DDTHH:MM...), 0 where a member is absent.
Event(id, date, time, dtDate, dtTime) ==
  [id |-> id, date |-> date, time |-> time, dtDate |-> dtDate, dtTime |-> dtTime]

\* A date member that is no string and that new Date() cannot read, an object
\* for one: new Date(eventDate).toISOString() throws a RangeError.
Unreadable == -1

\* event.date || ..., else the date part of start_datetime || datetime
EventDate(e) == IF e.date # 0 THEN e.date ELSE e.dtDate
\* event.start_time || event.time, else the HH:MM of the timestamp
EventTime(e) == IF e.time # 0 THEN e.time ELSE e.dtTime

\* Faulty variant: the identifier of the event is not compared.
EventOfAnyItem(e, item, from, to) ==
  /\ EventDate(e) # 0
  /\ EventDate(e) >= from /\ EventDate(e) <= to

\* The filter of getSlotsFromEvents.
EventMatches(e, item, from, to) ==
  /\ e.id = item
  /\ EventDate(e) # 0
  /\ EventDate(e) >= from /\ EventDate(e) <= to

\* timesMap of getSlotsFromEvents as the sequence of its entries: a date is
\* entered when its first slot is, a time once per date.
RECURSIVE AddSlot(_, _, _)
AddSlot(map, date, time) ==
  IF map = <<>> THEN <<[date |-> date, times |-> <<time>>]>>
  ELSE IF Head(map).date = date
       THEN <<[Head(map) EXCEPT !.times =
                 IF \E i \in 1..Len(@) : @[i] = time THEN @ ELSE Append(@, time)]>>
            \o Tail(map)
       ELSE <<Head(map)>> \o AddSlot(Tail(map), date, time)

RECURSIVE SlotsFromEvents(_, _, _, _, _)
SlotsFromEvents(events, item, from, to, map) ==
  IF events = <<>> THEN map
  ELSE LET e == Head(events) IN
       SlotsFromEvents(Tail(events), item, from, to,
         IF EventMatches(e, item, from, to) /\ EventTime(e) # 0
         THEN AddSlot(map, EventDate(e), EventTime(e))
         ELSE map)

\* The filter of getSlotsFromEvents throws: the identifier is compared first,
\* so only an event of the requested item gets as far as its date.
FilterThrows(events, item) ==
  \E i \in 1..Len(events) :
    events[i].id = item /\ EventDate(events[i]) = Unreadable

\* getSlotsFromEvents once its call has answered with a list and the filter
\* has gone through.
getSlotsFromEvents(events, item, from, to) ==
  SlotsFromEvents(events, item, from, to, <<>>)

\* timesMap.forEach(... push({ date, times: times.sort(), ... }))
DaysOfMap(map) ==
  [i \in 1..Len(map) |-> Day(map[i].date, SortTimes(map[i].times))]

\* availability.sort((a, b) => a.date.localeCompare(b.date))
RECURSIVE InsertDay(_, _)
InsertDay(x, seq) ==
  IF seq = <<>> THEN <<x>>
  ELSE IF x.date < Head(seq).date THEN <<x>> \o seq
       ELSE <<Head(seq)>> \o InsertDay(x, Tail(seq))

RECURSIVE SortByDate(_)
SortByDate(seq) ==
  IF seq = <<>> THEN <<>>
  ELSE InsertDay(seq[Len(seq)], SortByDate(SubSeq(seq, 1, Len(seq) - 1)))

\* Faulty variant: a date that is present already is overwritten.
MergeDayOverwriting(agg, day) ==
  IF \E i \in 1..Len(agg) : agg[i].date = day.date
  THEN [i \in 1..Len(agg) |-> IF agg[i].date = day.date THEN day ELSE agg[i]]
  ELSE Append(agg, day)

\* serviceAvailability.forEach(day => ...) for one day: the times that are not
\* yet among those of the date are pushed and the list is sorted again.
MergeDay(agg, day) ==
  IF \E i \in 1..Len(agg) : agg[i].date = day.date
  THEN [i \in 1..Len(agg) |->
          IF agg[i].date = day.date
          THEN LET old == agg[i].times
                   new == SelectSeq(day.times,
                            LAMBDA x : ~\E j \in 1..Len(old) : old[j] = x)
               IN Day(day.date, SortTimes(old \o new))
          ELSE agg[i]]
  ELSE Append(agg, day)

RECURSIVE MergeAll(_, _)
MergeAll(agg, days) ==
  IF days = <<>> THEN agg ELSE MergeAll(MergeDay(agg, Head(days)), Tail(days))

\* The slots an availability names, as a set of pairs of date and time.
SlotSet(days) ==
  UNION {{<<days[i].date, days[i].times[j]>> : j \in 1..Len(days[i].times)} :
           i \in 1..Len(days)}

\* ============================================ availability: the handlers
\* dateFrom and dateTo after the defaults: today, and today plus 30 days.
DateFrom(s) == IF s.av.reqFrom.form = "absent" THEN Today ELSE s.av.reqFrom.day
DateTo(s) ==
  IF s.av.reqTo.form = "absent" THEN Today + DefaultWindow ELSE s.av.reqTo.day

StartMatrix(s) == [Call(s, "getStartTimeMatrix") EXCEPT !.pc = "matrix"]

\* POST /api/service-availability from the token on: the defaults, the two
\* checks of the dates, the matrix call.
ServiceAfterToken(s) ==
  IF "invalid" \in {s.av.reqFrom.form, s.av.reqTo.form}
  THEN Respond(s, 400, "Invalid date format. Use YYYY-MM-DD")
  ELSE IF DateFrom(s) > DateTo(s)
  THEN Respond(s, 400, "Start date must be before end date")
  ELSE StartMatrix(s)

ServiceAnswer(s, days) ==
  [Respond(s, 200, "availability") EXCEPT !.av.availability = SortByDate(days)]

\* POST /api/category-availability once the availability of one member item
\* is known: it is merged, then the next member item is asked for or the
\* answer is sent.
CategoryMerged(s, days) ==
  LET s1 == [s EXCEPT !.av.agg = MergeAll(@, days),
                      !.av.seen = @ \cup SlotSet(days),
                      !.av.todo = Tail(@)]
  IN IF s1.av.todo = <<>>
     THEN [Respond(s1, 200, "availability") EXCEPT
             !.av.availability = SortByDate(s1.av.agg)]
     ELSE StartMatrix([s1 EXCEPT !.av.item = Head(s1.av.todo),
                                 !.av.matrixOut = "none",
                                 !.av.eventsOut = "none"])

Resolved(s, days) ==
  IF s.kind = "service" THEN ServiceAnswer(s, days) ELSE CategoryMerged(s, days)

\* if (availability.length === 0) -> getSlotsFromEvents
AfterMatrix(s, days) ==
  IF days = <<>> THEN [Call(s, "getEventListPublic") EXCEPT !.pc = "events"]
  ELSE Resolved(s, days)

\* allServices.filter(s => String(s.category_id) === String(categoryId)) and
\* what follows it.
CategoryServices(s, catalog) ==
  LET members == SelectSeq(catalog, LAMBDA x : x.category_id = s.av.category)
      ids == [i \in 1..Len(members) |-> members[i].id]
  IN IF ids = <<>>
     THEN Respond(s, 200, "No services found for this category")
     ELSE StartMatrix([s EXCEPT !.av.todo = ids, !.av.item = Head(ids)])

\* Faulty variant: the age of the cached catalog is not looked at.
ServicesPresentOnly == servicesCache.data # <<>>

\* if (!forceRefresh && servicesCache.data && (now - fetchedAt) < ttlMs)
ServicesFresh ==
  servicesCache.data # <<>> /\ (now - servicesCache.fetchedAt) < ServicesTtl

CatalogPublicEvents(s) ==
  [Call(s, "getEventListPublic") EXCEPT !.pc = "catalogPublicEvents",
                                         !.av.stage = "catalog2"]
CatalogServiceList(s) ==
  [Call(s, "getServiceListPublic") EXCEPT !.pc = "catalogServiceList",
                                          !.av.stage = "catalog3"]

\* What the caller of fetchServicesCached does with the catalog.
CatalogReturned(s, catalog) ==
  IF s.kind = "services" THEN Respond(s, 200, "services")
  ELSE CategoryServices(s, catalog)

RECURSIVE getSimplyBookTokenCached(_)

\* fetchServicesCached(forceRefresh) up to its first await.  The handler of
\* /api/category-availability calls it in the very step in which its own
\* getSimplyBookTokenCached has returned, so the getSimplyBookTokenCached of
\* the first method finds that token in the cache and the admin call is issued
\* at once.
fetchServicesCached(s) ==
  IF ~s.av.force /\ ServicesFresh THEN CatalogReturned(s, servicesCache.data)
  ELSE IF s.kind = "category"
       THEN [Call(s, "getEventList") EXCEPT !.pc = "catalogEventList",
                                           !.av.stage = "catalog1"]
       ELSE getSimplyBookTokenCached([s EXCEPT !.av.stage = "catalog1"])

\* ------------------------------------------------- createSimplyBookBooking
\* Faulty variant: the cached token is never used.
TokenAlwaysStale == FALSE

\* Faulty variant: the age of the cached token is not looked at.
TokenPresentOnly == tokenCache.token

\* if (tokenCache.token && (now - tokenCache.fetchedAt) < tokenCache.ttlMs)
TokenFresh ==
  tokenCache.token /\ (now - tokenCache.fetchedAt) < TokenTtl

\* try { axios.get(.../clients) }
LookupClient(s) == [Call(s, "getClients") EXCEPT !.pc = "lookup"]

\* What the caller of getSimplyBookTokenCached does with the token.
AfterToken(s) ==
  CASE s.kind = "units" ->
         [Call(s, "getAvailableUnits") EXCEPT !.pc = "availableUnits"]
    [] s.kind = "service" -> ServiceAfterToken(s)
    [] s.kind = "category" /\ s.av.stage = "handler" -> fetchServicesCached(s)
    [] s.av.stage = "catalog1" ->
         [Call(s, "getEventList") EXCEPT !.pc = "catalogEventList"]
    [] s.av.stage = "catalog4" ->
         [Call(s, "getAdminServices") EXCEPT !.pc = "catalogAdminServices"]
    [] OTHER -> LookupClient(s)

\* Cache hit: the token is returned at once; miss: the login call is awaited.
\* readToken and readAge keep what the function found in tokenCache.
getSimplyBookTokenCached(s) ==
  LET s1 == [s EXCEPT !.readToken = tokenCache.token,
                      !.readAge = now - tokenCache.fetchedAt]
  IN IF TokenFresh THEN AfterToken(s1)
     ELSE [Call(s1, "login") EXCEPT !.pc = "login"]

createSimplyBookBooking(s) ==
  IF s.shape = "incomplete" THEN Thrown(s)   \* Missing required booking data
  ELSE getSimplyBookTokenCached(s)

\* From the resolved client to the book call: datetime slicing or parsing,
\* then performer resolution.
AfterClient(s) ==
  IF s.shape = "badDatetime" THEN Thrown(s)  \* Invalid datetime provided
  ELSE IF s.shape = "noPerformer"
       THEN [Call(s, "getAvailableUnits") EXCEPT !.pc = "units"]
       ELSE [Call(s, "book") EXCEPT !.pc = "book"]

\* Faulty variant: no sub-booking is ever confirmed.
ConfirmationSkipped(s, requireConfirm, n) ==
  AfterBookingReturned([s EXCEPT !.requireConfirm = requireConfirm,
                                 !.subs = IF requireConfirm THEN n ELSE 0])

\* bookingResp.result as confirmSimplyBookBookingIfRequired reads it: n is the
\* number of entries of result.bookings that carry both id and hash; subs
\* keeps n of a result that asks for confirmation.
confirmSimplyBookBookingIfRequired(s, requireConfirm, n) ==
  IF ~requireConfirm \/ ~secretSet \/ n = 0
  THEN AfterBookingReturned([s EXCEPT !.requireConfirm = requireConfirm,
                                      !.subs = IF requireConfirm THEN n ELSE 0])
  ELSE [Call(s, "confirmBooking") EXCEPT !.pc = "confirm", !.left = n,
                                         !.requireConfirm = requireConfirm,
                                         !.subs = n]

\* ------------------------------------------------------------ shared steps
\* Writes slot r back; a handler that went on past createSimplyBookBooking
\* has executed processedPayments.add(paymentId).
Commit(r, s2) ==
  LET adds == s2.added /\ ~h[r].added IN
  /\ h' = [h EXCEPT ![r] = IF s2.pc = "done" THEN IdleSlot ELSE s2]
  /\ answered' = IF s2.pc = "done" THEN s2 ELSE IdleSlot
  /\ processedPayments' =
       IF adds THEN processedPayments \cup {s2.pid} ELSE processedPayments
  /\ okDone' =
       IF adds THEN [okDone EXCEPT ![s2.pid] = @ \cup {s2.kind}] ELSE okDone

\* A new request takes the first free slot.
Free(r) == h[r].pc = "idle" /\ \A q \in Handlers : q < r => h[q].pc # "idle"

\* A create-booking request that books directly is taken with no other request
\* in flight; all other requests overlap freely.
Alone == \A q \in Handlers : h[q].pc = "idle"
NoDirectBooking ==
  \A q \in Handlers : ~(h[q].kind = "create" /\ h[q].pc # "createPayment")

Fresh(r, kind, pid) == [IdleSlot EXCEPT !.kind = kind, !.pid = pid]

\* Faulty variants: the membership check is skipped.
WebhookAlreadyProcessedSkipped(pid) == FALSE
FinalizeAlreadyProcessedSkipped(pid) == FALSE

\* if (processedPayments.has(paymentId)) of the webhook and of finalize
WebhookAlreadyProcessed(pid) == pid \in processedPayments
FinalizeAlreadyProcessed(pid) == pid \in processedPayments

\* Faulty variant: the handler trusts the status of the request body.
StatusFromBody(bodyStatus, provStatus) == bodyStatus

\* The status a handler acts on: payment.status of the payments.get answer.
StatusUsed(bodyStatus, provStatus) == provStatus

\* Faulty variant: the booking requests are kept outside the process.
PendingRequestPersisted(pid) ==
  IF pid \in registered /\ pendingBookingsByPaymentId[pid] = "absent"
  THEN "full" ELSE pendingBookingsByPaymentId[pid]

\* pendingBookingsByPaymentId.get(paymentId)
PendingRequest(pid) == pendingBookingsByPaymentId[pid]

\* ---------------------------------------------------- POST /api/mollie-webhook
\* Faulty variant: a payment that is not paid is answered as a processing error.
WebhookNotPaidRetried(s) == Respond(s, 500, "Webhook error")

\* Faulty variant: a paid payment without a pending request is marked processed.
WebhookNoPendingMarked(s) ==
  [Respond(s, 200, "No pending booking attached") EXCEPT !.added = TRUE]

WebhookNotPaid(s) == Respond(s, 200, "Ignored status")
WebhookNoPending(s) == Respond(s, 200, "No pending booking attached")

StartWebhook(r, pid, bodyStatus) ==
  /\ Free(r) /\ NoDirectBooking
  /\ LET s == [Fresh(r, "webhook", pid) EXCEPT
                 !.bodyStatus = bodyStatus,
                 !.afterOk = pid # NoPaymentId /\ "webhook" \in okDone[pid]]
     IN Commit(r,
          IF pid = NoPaymentId THEN Respond(s, 400, "Missing payment id")
          ELSE IF WebhookAlreadyProcessed(pid) THEN Respond(s, 200, "Already processed")
          ELSE [Call(s, "payments.get") EXCEPT !.pc = "getPayment"])
  /\ UNCHANGED <<servicesCache, probe, router, registered, mollieKeySet, secretSet, tokenCache, now,
                 pendingBookingsByPaymentId, payStatus, reservations, reportedPaid>>

\* -------------------------------- POST /api/finalize-booking-after-payment
\* Faulty variant: finalize without a pending request reports success and marks the id.
FinalizeNoPendingAccepted(s) == [Respond(s, 200, "success") EXCEPT !.added = TRUE]

FinalizeNotPaid(s) == Respond(s, 400, "Payment not paid")
FinalizeNoPending(s) == Respond(s, 400, "No pending booking attached to paymentId")

StartFinalize(r, pid) ==
  /\ Free(r) /\ NoDirectBooking
  /\ LET s == [Fresh(r, "finalize", pid) EXCEPT
                 !.afterOk = pid # NoPaymentId /\ "finalize" \in okDone[pid]]
     IN Commit(r,
          IF pid = NoPaymentId THEN Respond(s, 400, "paymentId is required")
          ELSE IF FinalizeAlreadyProcessed(pid) THEN Respond(s, 200, "already_processed")
          ELSE [Call(s, "payments.get") EXCEPT !.pc = "getPayment"])
  /\ UNCHANGED <<servicesCache, probe, router, registered, mollieKeySet, secretSet, tokenCache, now,
                 pendingBookingsByPaymentId, payStatus, reservations, reportedPaid>>

\* mollieClient.payments.get(paymentId) has settled (webhook and finalize).
\*   out = "payment": the provider answers with the payment
\*   out = "null":    the client resolves to nothing
\*   out = "throw":   the call rejects (unknown id, network)
AfterPayment(s) ==
  IF s.status # "paid"
  THEN IF s.kind = "webhook" THEN WebhookNotPaid(s) ELSE FinalizeNotPaid(s)
  ELSE IF PendingRequest(s.pid) = "absent"
       THEN IF s.kind = "webhook" THEN WebhookNoPending(s) ELSE FinalizeNoPending(s)
       ELSE createSimplyBookBooking([s EXCEPT !.shape = PendingRequest(s.pid)])

GetPaymentReturn(r, out) ==
  /\ h[r].pc = "getPayment"
  /\ out = "payment" => payStatus[h[r].pid] # "none"
  /\ out = "null" => payStatus[h[r].pid] = "none"
  /\ LET s == h[r] IN
       CASE out = "throw" ->
              Commit(r, Thrown(s)) /\ UNCHANGED reportedPaid
         [] out = "null" ->
              Commit(r, Respond(s, 404, "Payment not found")) /\ UNCHANGED reportedPaid
         [] out = "payment" ->
              /\ Commit(r, AfterPayment(
                   [s EXCEPT !.provStatus = payStatus[s.pid],
                             !.status = StatusUsed(s.bodyStatus, payStatus[s.pid]),
                             !.bodyStatus = "none"]))
              /\ reportedPaid' = IF payStatus[s.pid] = "paid"
                                 THEN reportedPaid \cup {s.pid} ELSE reportedPaid
  /\ UNCHANGED <<servicesCache, probe, router, registered, mollieKeySet, secretSet, tokenCache, now,
                 pendingBookingsByPaymentId, payStatus, reservations>>

\* --------------------------------------------------- POST /api/create-booking
\* if (payment && payment.amount && payment.redirectUrl)
PaymentFlow(terms) == terms = "amountAndRedirect"

StartCreateBooking(r, body, terms) ==
  /\ Free(r) /\ NoDirectBooking
  /\ (body \notin InvalidBodies /\ ~PaymentFlow(terms)) => Alone
  /\ LET s == [Fresh(r, "create", NoPaymentId) EXCEPT !.terms = terms] IN
     Commit(r,
       IF body \in InvalidBodies THEN Respond(s, 400, body)
       ELSE IF PaymentFlow(terms)
            THEN IF ~mollieKeySet
                 THEN Respond(s, 500, "Mollie API key not configured")
                 ELSE [Call([s EXCEPT !.shape = body], "payments.create")
                         EXCEPT !.pc = "createPayment"]
            ELSE createSimplyBookBooking([s EXCEPT !.shape = body]))
  /\ UNCHANGED <<servicesCache, probe, router, registered, mollieKeySet, secretSet, tokenCache, now,
                 pendingBookingsByPaymentId, payStatus, reservations, reportedPaid>>

\* ----------------------------------------- POST /api/initiate-booking-payment
StartInitiate(r, body) ==
  /\ Free(r) /\ NoDirectBooking
  /\ LET s == Fresh(r, "initiate", NoPaymentId) IN
     Commit(r,
       IF body = "missingFields"
       THEN Respond(s, 400, "amount, description and redirectUrl are required")
       ELSE IF body = "noBookingRequest"
       THEN Respond(s, 400, "bookingRequest is required")
       ELSE IF ~mollieKeySet
       THEN Respond(s, 500, "Mollie API key not configured")
       ELSE [Call([s EXCEPT !.shape = body], "payments.create")
               EXCEPT !.pc = "createPayment"])
  /\ UNCHANGED <<servicesCache, probe, router, registered, mollieKeySet, secretSet, tokenCache, now,
                 pendingBookingsByPaymentId, payStatus, reservations, reportedPaid>>

\* --------------------------------------------------- POST /api/create-payment
\* A payment session with no booking request attached to it.
StartCreatePayment(r, body) ==
  /\ Free(r) /\ NoDirectBooking
  /\ LET s == Fresh(r, "payment", NoPaymentId) IN
     Commit(r,
       IF body = "missingFields"
       THEN Respond(s, 400, "amount, description and redirectUrl are required")
       ELSE IF ~mollieKeySet
       THEN Respond(s, 500, "Mollie API key not configured")
       ELSE [Call(s, "payments.create") EXCEPT !.pc = "createPayment"])
  /\ UNCHANGED <<servicesCache, probe, router, registered, mollieKeySet, secretSet, tokenCache, now,
                 pendingBookingsByPaymentId, payStatus, reservations, reportedPaid>>

\* mollieClient.payments.create(...) has settled: the provider hands out an id
\* it has not used before; create-booking and initiate-booking-payment attach
\* the booking request to it.
\*   out = "created":       a payment with a checkout link
\*   out = "createdNoLink": a payment without one; getCheckoutUrl() is null,
\*                          payment._links.checkout.href is a TypeError
\*   out = "throw":         the call rejects
CreatedAnswer(s, out) ==
  IF s.kind = "create" THEN Respond(s, 200, "payment_required")
  ELSE IF out = "createdNoLink" THEN Thrown(s)
  ELSE Respond(s, 200, "checkoutUrl")

UnusedIds == {p \in PaymentIds : payStatus[p] = "none"}

\* Faulty variant: the booking request is not kept.
StorePendingNever(s, p) == pendingBookingsByPaymentId

\* pendingBookingsByPaymentId.set(payment.id, bookingRequest); the handler of
\* /api/create-payment has no booking request to keep.
StorePending(s, p) ==
  IF s.kind = "payment" THEN pendingBookingsByPaymentId
  ELSE [pendingBookingsByPaymentId EXCEPT ![p] = s.shape]

CreatePaymentReturn(r, out) ==
  /\ h[r].pc = "createPayment"
  /\ IF out \in {"created", "createdNoLink"}
     THEN \E p \in UnusedIds :
            /\ \A q \in UnusedIds : p <= q
            /\ payStatus' = [payStatus EXCEPT ![p] = "open"]
            /\ pendingBookingsByPaymentId' = StorePending(h[r], p)
            /\ registered' = IF h[r].kind = "payment" THEN registered
                              ELSE registered \cup {p}
            /\ Commit(r, CreatedAnswer([h[r] EXCEPT !.pid = p], out))
     ELSE /\ Commit(r, Thrown(h[r]))
          /\ UNCHANGED <<payStatus, pendingBookingsByPaymentId, registered>>
  /\ UNCHANGED <<servicesCache, probe, router, mollieKeySet, secretSet, tokenCache, now, reservations, reportedPaid>>

\* ------------------------------- createSimplyBookBooking, one step per await
\* Faulty variant: a failed login is remembered in the cache.
LoginReturnCachingFailure(r, out) ==
  /\ h[r].pc = "login"
  /\ IF out = "token"
     THEN /\ tokenCache' = [token |-> TRUE, fetchedAt |-> now]
          /\ Commit(r, AfterToken(h[r]))
     ELSE /\ Commit(r, Thrown(h[r]))
          /\ tokenCache' = [token |-> FALSE, fetchedAt |-> now]
  /\ UNCHANGED <<servicesCache, probe, router, registered, mollieKeySet, secretSet, now,
                 pendingBookingsByPaymentId, payStatus, reservations, reportedPaid>>

\* What the caller of getSimplyBookTokenCached does with its exception: the
\* first method of fetchServicesCached catches it and the second method is
\* tried; everywhere else it ends the request (thrown by the fourth method it
\* is caught too, and fetchServicesCached throws right after).  authFailed
\* keeps that the request has seen a login fail.
TokenFailed(s) ==
  LET s1 == [s EXCEPT !.authFailed = TRUE] IN
  IF s.av.stage = "catalog1" THEN CatalogPublicEvents(s1) ELSE Thrown(s1)

\* axios.post(.../login) has settled:
\*   out = "token":   the answer carries a token
\*   out = "noToken": the answer carries none (No token in login response)
\*   out = "throw":   the call rejects
LoginReturn(r, out) ==
  /\ h[r].pc = "login"
  /\ IF out = "token"
     THEN /\ tokenCache' = [token |-> TRUE, fetchedAt |-> now]
          /\ Commit(r, AfterToken(h[r]))
     ELSE /\ Commit(r, TokenFailed(h[r]))   \* Failed to obtain SimplyBook token
          /\ UNCHANGED tokenCache
  /\ UNCHANGED <<servicesCache, probe, router, registered, mollieKeySet, secretSet, now, pendingBookingsByPaymentId,
                 payStatus, reservations, reportedPaid>>

\* Faulty variant: a lookup that rejects ends the booking.
LookupReturnFatal(r, out) ==
  /\ h[r].pc = "lookup"
  /\ LET s == [h[r] EXCEPT !.client = out] IN
     Commit(r, IF out = "found" THEN AfterClient(s)
               ELSE IF out = "throw" THEN Thrown(s)
               ELSE [Call(s, "postClient") EXCEPT !.pc = "createClient"])
  /\ UNCHANGED <<servicesCache, probe, router, registered, mollieKeySet, secretSet, tokenCache, now,
                 pendingBookingsByPaymentId, payStatus, reservations, reportedPaid>>

\* axios.get(.../clients) has settled; a rejection is caught and ignored.
\*   out = "found": a list whose first client carries an id
\*   out = "empty": an empty list, or no list at all
\*   out = "throw": the call rejects
\* client keeps the outcome until the client has been created.
LookupReturn(r, out) ==
  /\ h[r].pc = "lookup"
  /\ LET s == [h[r] EXCEPT !.client = out] IN
     Commit(r, IF out = "found" THEN AfterClient(s)
               ELSE [Call(s, "postClient") EXCEPT !.pc = "createClient"])
  /\ UNCHANGED <<servicesCache, probe, router, registered, mollieKeySet, secretSet, tokenCache, now,
                 pendingBookingsByPaymentId, payStatus, reservations, reportedPaid>>

\* Faulty variant: the booking goes on although the client was not created.
CreateClientReturnIgnoringFailure(r, out) ==
  /\ h[r].pc = "createClient"
  /\ Commit(r, AfterClient([h[r] EXCEPT !.client = "created",
                                        !.clientFailed = (out = "throw")]))
  /\ UNCHANGED <<servicesCache, probe, router, registered, mollieKeySet, secretSet, tokenCache, now,
                 pendingBookingsByPaymentId, payStatus, reservations, reportedPaid>>

\* axios.post(.../clients) has settled.
\*   out = "created": the answer carries the client and its id
\*   out = "noId":    a 2xx answer whose body carries no id: clientId stays
\*                    undefined and the flow goes on
\*   out = "throw":   the call rejects (network, 4xx, 5xx)
\* clientFailed keeps that the call rejected.
CreateClientReturn(r, out) ==
  /\ h[r].pc = "createClient"
  /\ Commit(r, IF out \in {"created", "noId"}
               THEN AfterClient([h[r] EXCEPT !.client = "created"])
               ELSE Thrown([h[r] EXCEPT !.clientFailed = TRUE]))
  /\ UNCHANGED <<servicesCache, probe, router, registered, mollieKeySet, secretSet, tokenCache, now,
                 pendingBookingsByPaymentId, payStatus, reservations, reportedPaid>>

\* getAvailableUnits has settled; its rejection is caught and ignored, the
\* book call follows with the unit found or with null.
UnitsReturn(r, out) ==
  /\ h[r].pc = "units"
  /\ Commit(r, [Call(h[r], "book") EXCEPT !.pc = "book"])
  /\ UNCHANGED <<servicesCache, probe, router, registered, mollieKeySet, secretSet, tokenCache, now,
                 pendingBookingsByPaymentId, payStatus, reservations, reportedPaid>>

\* The scheduling provider created a reservation for the request of slot r.
Reserve(r) ==
  IF h[r].pid \in PaymentIds
  THEN /\ reservations[h[r].pid] < MaxReservations
       /\ reservations' = [reservations EXCEPT ![h[r].pid] = @ + 1]
  ELSE UNCHANGED reservations

\* callAdminRpc(token, 'book', ...) has settled.
\*   out = "ok":    result; rc = result.require_confirm, n = bookings to confirm
\*   out = "error": HTTP 200 whose body carries an error member
\*   out = "throw": the call rejects
BookReturn(r, out, rc, n) ==
  /\ h[r].pc = "book"
  /\ IF out = "ok"
     THEN /\ Reserve(r)
          /\ Commit(r, confirmSimplyBookBookingIfRequired(
                         [h[r] EXCEPT !.bookOut = out, !.reserved = TRUE], rc, n))
     ELSE /\ rc = FALSE /\ n = 0
          /\ Commit(r, [Call([h[r] EXCEPT !.bookOut = out], "bookSession")
                          EXCEPT !.pc = "bookSession"])
          /\ UNCHANGED reservations
  /\ UNCHANGED <<servicesCache, probe, router, registered, mollieKeySet, secretSet, tokenCache, now,
                 pendingBookingsByPaymentId, payStatus, reportedPaid>>

\* callAdminRpc(token, 'bookSession', ...) has settled; callAdminRpc returns
\* resp.data whatever it holds, so an error member is not an exception.
BookSessionReturn(r, out, rc, n) ==
  /\ h[r].pc = "bookSession"
  /\ CASE out = "ok" ->
            /\ Reserve(r)
            /\ Commit(r, confirmSimplyBookBookingIfRequired(
                           [h[r] EXCEPT !.sessOut = out, !.reserved = TRUE], rc, n))
       [] out = "error" ->
            /\ rc = FALSE /\ n = 0
            /\ Commit(r, confirmSimplyBookBookingIfRequired(
                           [h[r] EXCEPT !.sessOut = out], FALSE, 0))
            /\ UNCHANGED reservations
       [] out = "throw" ->
            /\ rc = FALSE /\ n = 0
            /\ Commit(r, Thrown([h[r] EXCEPT !.sessOut = out]))
            /\ UNCHANGED reservations
  /\ UNCHANGED <<servicesCache, probe, router, registered, mollieKeySet, secretSet, tokenCache, now,
                 pendingBookingsByPaymentId, payStatus, reportedPaid>>

\* callAdminRpc(token, 'confirmBooking', ...) has settled; the loop goes on to
\* the next sub-booking, a rejection leaves createSimplyBookBooking.
ConfirmReturn(r, out) ==
  /\ h[r].pc = "confirm"
  /\ Commit(r,
       IF out = "throw" THEN Thrown(h[r])
       ELSE IF h[r].left > 1
            THEN [Call(h[r], "confirmBooking") EXCEPT !.left = @ - 1]
            ELSE AfterBookingReturned([h[r] EXCEPT !.left = 0]))
  /\ UNCHANGED <<servicesCache, probe, router, registered, mollieKeySet, secretSet, tokenCache, now,
                 pendingBookingsByPaymentId, payStatus, reservations, reportedPaid>>

\* ------------------------------------------------------------- environment
\* The payment provider settles an open payment.
PaymentSettles(p, st) ==
  /\ payStatus[p] = "open"
  /\ payStatus' = [payStatus EXCEPT ![p] = st]
  /\ UNCHANGED <<servicesCache, probe, router, registered, mollieKeySet, secretSet, tokenCache, now,
                 pendingBookingsByPaymentId, processedPayments, reservations,
                 reportedPaid, okDone, h>>
  /\ answered' = IdleSlot

Next ==
  \/ \E r \in Handlers, p \in PaymentIds \cup {NoPaymentId}, b \in {"none", "paid"} :
       StartWebhook(r, p, b)
  \/ \E r \in Handlers, p \in PaymentIds \cup {NoPaymentId} : StartFinalize(r, p)
  \/ \E r \in Handlers, b \in InvalidBodies \cup (ReqShapes \ {"incomplete"}),
        t \in PayTerms : StartCreateBooking(r, b, t)
  \/ \E r \in Handlers, b \in {"missingFields", "noBookingRequest"} \cup ReqShapes :
       StartInitiate(r, b)
  \/ \E r \in Handlers, b \in {"missingFields", "complete"} : StartCreatePayment(r, b)
  \/ \E r \in Handlers, out \in {"payment", "null", "throw"} : GetPaymentReturn(r, out)
  \/ \E r \in Handlers, out \in {"created", "createdNoLink", "throw"} :
       CreatePaymentReturn(r, out)
  \/ \E r \in Handlers, out \in {"token", "noToken", "throw"} : LoginReturn(r, out)
  \/ \E r \in Handlers, out \in {"found", "empty", "throw"} : LookupReturn(r, out)
  \/ \E r \in Handlers, out \in {"created", "noId", "throw"} : CreateClientReturn(r, out)
  \/ \E r \in Handlers, out \in {"units", "throw"} : UnitsReturn(r, out)
  \/ \E r \in Handlers, out \in {"ok", "error", "throw"}, rc \in BOOLEAN, n \in 0..MaxSub :
       BookReturn(r, out, rc, n)
  \/ \E r \in Handlers, out \in {"ok", "error", "throw"}, rc \in BOOLEAN, n \in 0..MaxSub :
       BookSessionReturn(r, out, rc, n)
  \/ \E r \in Handlers, out \in {"ok", "throw"} : ConfirmReturn(r, out)
  \/ \E p \in PaymentIds, st \in {"paid", "failed", "expired"} : PaymentSettles(p, st)

Spec == Init /\ [][Next]_vars

\* ==================================== token cache under a running clock
\* POST /api/available-units: validation, the token, one admin call.
StartAvailableUnits(r, body) ==
  /\ Free(r)
  /\ LET s == Fresh(r, "units", NoPaymentId) IN
     Commit(r,
       IF body = "noServiceId" THEN Respond(s, 400, "serviceId is required")
       ELSE IF body = "noStart"
       THEN Respond(s, 400, "startDateTime or datetime is required")
       ELSE getSimplyBookTokenCached(s))
  /\ UNCHANGED <<servicesCache, probe, router, registered, mollieKeySet, secretSet, tokenCache, now,
                 pendingBookingsByPaymentId, payStatus, reservations, reportedPaid>>

\* callAdminRpc(token, 'getAvailableUnits', ...) of the handler has settled; an
\* answer without a result member counts as no units.
AvailableUnitsReturn(r, out) ==
  /\ h[r].pc = "availableUnits"
  /\ Commit(r, IF out = "throw" THEN Thrown(h[r])
               ELSE Respond(h[r], 200, "units"))
  /\ UNCHANGED <<servicesCache, probe, router, registered, mollieKeySet, secretSet, tokenCache, now,
                 pendingBookingsByPaymentId, payStatus, reservations, reportedPaid>>

\* POST /api/purge-cache: both caches are reset when the admin secret matches.
PurgeCache(authorized) ==
  /\ IF authorized
     THEN /\ tokenCache' = [token |-> FALSE, fetchedAt |-> 0]
          /\ servicesCache' = NoServices
          /\ answered' = Respond(Fresh(1, "purge", NoPaymentId), 200, "Caches purged")
     ELSE /\ UNCHANGED <<tokenCache, servicesCache>>
          /\ answered' = Respond(Fresh(1, "purge", NoPaymentId), 401, "Unauthorized")
  /\ UNCHANGED <<probe, router, registered, mollieKeySet, secretSet, now, pendingBookingsByPaymentId,
                 processedPayments, payStatus, reservations, reportedPaid, okDone, h>>

\* Date.now() advances.
Tick ==
  /\ now + TickMinutes <= MaxNow
  /\ now' = now + TickMinutes
  /\ answered' = IdleSlot
  /\ UNCHANGED <<servicesCache, probe, router, registered, mollieKeySet, secretSet, tokenCache,
                 pendingBookingsByPaymentId, processedPayments, payStatus,
                 reservations, reportedPaid, okDone, h>>

NextToken ==
  \/ \E r \in Handlers, b \in {"noServiceId", "noStart", "complete"} :
       StartAvailableUnits(r, b)
  \/ \E r \in Handlers, out \in {"token", "noToken", "throw"} : LoginReturn(r, out)
  \/ \E r \in Handlers, out \in {"result", "error", "throw"} :
       AvailableUnitsReturn(r, out)
  \/ \E a \in BOOLEAN : PurgeCache(a)
  \/ Tick

SpecToken == Init /\ [][NextToken]_vars

\* ================================================ availability requests
\* What the provider may answer for one date of the matrix: an array or an
\* object of strings and of entries that carry no time.
RawEntries == {StringEntry(t) : t \in Times} \cup {ObjectEntry(0, 0)}
RawValues ==
  {ArrayValue(l) : l \in SeqsUpTo(RawEntries, MaxLen)} \cup
  {ObjectValue(l) : l \in SeqsUpTo(RawEntries, MaxLen)}
RawMatrices ==
  {m \in SeqsUpTo([date : Days, value : RawValues], 2) :
     \A i, j \in 1..Len(m) : i # j => m[i].date # m[j].date}

\* Events with separate date and time fields, with a combined timestamp only,
\* with a date and no time, with neither, and with a date that is an object.
EventChoices ==
  {Event(i, d, t, 0, 0) : i \in Items, d \in Days, t \in Times} \cup
  {Event(i, 0, 0, d, t) : i \in Items, d \in Days, t \in Times} \cup
  {Event(i, d, 0, 0, 0) : i \in Items, d \in Days} \cup
  {Event(i, 0, 0, 0, 0) : i \in Items} \cup
  {Event(i, Unreadable, t, 0, 0) : i \in Items, t \in {1}}

\* Lists of items a method of fetchServicesCached can answer with: each item
\* once, with its category.
Catalogs ==
  {c \in SeqsUpTo([id : Items, category_id : Categories], MaxItems) :
     c # <<>> /\ \A i, j \in 1..Len(c) : i # j => c[i].id # c[j].id}

RequestDates == {NoDate, InvalidDate} \cup {DateOf(d) : d \in Days}

\* The variables no availability step changes.
paymentVars == <<probe, router, registered, mollieKeySet, secretSet, now, pendingBookingsByPaymentId,
                 payStatus, reservations, reportedPaid>>

\* POST /api/service-availability up to its first await.
StartServiceAvailability(r, item, from, to) ==
  /\ Free(r) /\ Alone
  /\ LET s == [Fresh(r, "service", NoPaymentId) EXCEPT
                 !.av.item = item, !.av.reqFrom = from, !.av.reqTo = to]
     IN Commit(r, IF item = 0 THEN Respond(s, 400, "Service ID is required")
                  ELSE getSimplyBookTokenCached(s))
  /\ UNCHANGED <<paymentVars, tokenCache, servicesCache>>

\* POST /api/category-availability up to its first await.
StartCategoryAvailability(r, category, from, to) ==
  /\ Free(r) /\ Alone
  /\ LET s == [Fresh(r, "category", NoPaymentId) EXCEPT
                 !.av.category = category, !.av.reqFrom = from, !.av.reqTo = to,
                 !.av.stage = "handler"]
     IN Commit(r, IF category = 0 THEN Respond(s, 400, "Category ID is required")
                  ELSE getSimplyBookTokenCached(s))
  /\ UNCHANGED <<paymentVars, tokenCache, servicesCache>>

\* callAdminRpc(token, 'getStartTimeMatrix', ...) has settled:
\*   out = "matrix":    result is the matrix
\*   out = "undefined": the answer has no result member (a structured error)
\*   out = "null":      result is null, Object.entries(null) throws
\*   out = "throw":     the call rejects
\* Whatever is thrown is caught and ignored.
MatrixReturn(r, out, matrix) ==
  /\ h[r].pc = "matrix"
  /\ out # "matrix" => matrix = <<>>
  /\ LET days == IF out = "matrix" THEN normalizeTimeMatrix(matrix) ELSE <<>>
     IN Commit(r, AfterMatrix([h[r] EXCEPT !.av.matrixOut = out,
                                           !.av.matrixDates = Len(days)], days))
  /\ UNCHANGED <<paymentVars, tokenCache, servicesCache>>

\* Faulty variant: a fallback that throws counts as no slots of the item.
FallbackFailedSkipped(s) == Resolved(s, <<>>)

\* await getSlotsFromEvents(...) stands outside the try of the matrix call: its
\* exception reaches the catch block of the handler.
FallbackFailed(s) == Thrown(s)

\* callPublicRpc('getEventListPublic', [dateFrom, dateTo]) of getSlotsFromEvents
\* has settled:
\*   out = "list":  result is an array of events
\*   out = "error": no result array (a structured error): an empty Map
\*   out = "throw": the call rejects
EventsReturn(r, out, events) ==
  /\ h[r].pc = "events"
  /\ out # "list" => events = <<>>
  /\ LET s == [h[r] EXCEPT !.av.eventsOut = out]
         from == DateFrom(s)
         to == DateTo(s)
     IN Commit(r,
          CASE out = "throw" -> FallbackFailed(s)
            [] out = "error" -> Resolved(s, <<>>)
            [] out = "list" /\ FilterThrows(events, s.av.item) -> FallbackFailed(s)
            [] out = "list" /\ ~FilterThrows(events, s.av.item) ->
                 Resolved(
                   [s EXCEPT !.av.justified =
                      {<<d, x>> \in Days \X Times :
                         \E i \in 1..Len(events) :
                           /\ events[i].id = s.av.item
                           /\ d >= from /\ d <= to
                           /\ \/ events[i].date = d
                              \/ events[i].date = 0 /\ events[i].dtDate = d
                           /\ \/ events[i].time = x
                              \/ events[i].time = 0 /\ events[i].dtTime = x}],
                   DaysOfMap(getSlotsFromEvents(events, s.av.item, from, to))))
  /\ UNCHANGED <<paymentVars, tokenCache, servicesCache>>

\* The normalizers of the catalog, as far as the handlers read their result:
\* the identifier, the category and the type of each item.  The type follows
\* from the method that delivered the list and from nothing else.
Service(raw, type) ==
  [id |-> raw.id, category_id |-> raw.category_id, type |-> type]

normalizeEventsToServices(events, sourceMethod) ==
  [i \in 1..Len(events) |->
     Service(events[i],
             IF sourceMethod = "getEventListPublic" THEN "event" ELSE "service")]

normalizeServicesListPublic(items) ==
  [i \in 1..Len(items) |-> Service(items[i], "service")]

normalizeServicesAdmin(items) ==
  [i \in 1..Len(items) |-> Service(items[i], "service")]

\* A method of fetchServicesCached has answered with a non-empty list: the
\* catalog is cached and returned.
CatalogFetched(r, catalog) ==
  /\ servicesCache' = [data |-> catalog, fetchedAt |-> now]
  /\ Commit(r, CatalogReturned(h[r], catalog))

\* 1) callAdminRpc(token, 'getEventList', []) has settled.
CatalogEventListReturn(r, out, catalog) ==
  /\ h[r].pc = "catalogEventList"
  /\ IF out = "items"
     THEN CatalogFetched(r, normalizeEventsToServices(catalog, "getEventList"))
     ELSE Commit(r, CatalogPublicEvents(h[r])) /\ UNCHANGED servicesCache
  /\ UNCHANGED <<paymentVars, tokenCache>>

\* 2) callPublicRpc('getEventListPublic', [from, to]) has settled.
CatalogPublicEventsReturn(r, out, catalog) ==
  /\ h[r].pc = "catalogPublicEvents"
  /\ IF out = "items"
     THEN CatalogFetched(r, normalizeEventsToServices(catalog, "getEventListPublic"))
     ELSE Commit(r, CatalogServiceList(h[r])) /\ UNCHANGED servicesCache
  /\ UNCHANGED <<paymentVars, tokenCache>>

\* 3) callPublicRpc('getServiceListPublic', []) has settled; the fourth method
\* starts with getSimplyBookTokenCached.
CatalogServiceListReturn(r, out, catalog) ==
  /\ h[r].pc = "catalogServiceList"
  /\ IF out = "items" THEN CatalogFetched(r, normalizeServicesListPublic(catalog))
     ELSE /\ Commit(r, getSimplyBookTokenCached([h[r] EXCEPT !.av.stage = "catalog4"]))
          /\ UNCHANGED servicesCache
  /\ UNCHANGED <<paymentVars, tokenCache>>

\* 4) axios.get(.../admin/services) has settled; with no data from any method
\* fetchServicesCached throws.
CatalogAdminServicesReturn(r, out, catalog) ==
  /\ h[r].pc = "catalogAdminServices"
  /\ IF out = "items" THEN CatalogFetched(r, normalizeServicesAdmin(catalog))
     ELSE Commit(r, Thrown(h[r])) /\ UNCHANGED servicesCache
  /\ UNCHANGED <<paymentVars, tokenCache>>

CatalogAnswers ==
  {[out |-> "items", catalog |-> c] : c \in Catalogs} \cup
  {[out |-> o, catalog |-> <<>>] : o \in {"empty", "throw"}}

\* ---------------------------------------- the service-level endpoint
NextAvail ==
  \/ \E r \in Handlers, i \in Items \cup {0}, from, to \in RequestDates :
       StartServiceAvailability(r, i, from, to)
  \/ \E r \in Handlers, out \in {"token", "noToken", "throw"} : LoginReturn(r, out)
  \/ \E r \in Handlers, out \in {"matrix", "undefined", "null", "throw"},
        m \in RawMatrices : MatrixReturn(r, out, m)
  \/ \E r \in Handlers, out \in {"list", "error", "throw"},
        e \in SeqsUpTo(EventChoices, MaxEvents) : EventsReturn(r, out, e)
  \/ \E a \in BOOLEAN : PurgeCache(a)

\* The payment provider and the booking secret play no part here.
InitAvail == Init /\ mollieKeySet /\ secretSet

SpecAvail == InitAvail /\ [][NextAvail]_vars

\* --------------------------------------- the category-level endpoint
\* The provider answers with one date per matrix and one event per list; the
\* requests ask for category 1 with no dates, with a range, and with a range
\* whose start lies after its end.
CategoryRanges ==
  {<<NoDate, NoDate>>, <<DateOf(1), DateOf(MaxDay)>>, <<DateOf(MaxDay), DateOf(1)>>}

NextCategory ==
  \/ \E r \in Handlers, c \in {0, 1}, range \in CategoryRanges :
       StartCategoryAvailability(r, c, range[1], range[2])
  \/ \E r \in Handlers, out \in {"token", "noToken", "throw"} : LoginReturn(r, out)
  \/ \E r \in Handlers, out \in {"matrix", "undefined", "null", "throw"},
        m \in {x \in RawMatrices : Len(x) <= 1} : MatrixReturn(r, out, m)
  \/ \E r \in Handlers, out \in {"list", "error", "throw"},
        e \in SeqsUpTo(EventChoices, 1) : EventsReturn(r, out, e)
  \/ \E r \in Handlers, a \in CatalogAnswers : CatalogEventListReturn(r, a.out, a.catalog)
  \/ \E r \in Handlers, a \in CatalogAnswers :
       CatalogPublicEventsReturn(r, a.out, a.catalog)
  \/ \E r \in Handlers, a \in CatalogAnswers :
       CatalogServiceListReturn(r, a.out, a.catalog)
  \/ \E r \in Handlers, a \in CatalogAnswers :
       CatalogAdminServicesReturn(r, a.out, a.catalog)
  \/ \E a \in BOOLEAN : PurgeCache(a)

SpecCategory == InitAvail /\ [][NextCategory]_vars

\* ------------------------------------------------- the services catalog
\* GET /api/services: fetchServicesCached(req.query.force === 'true').
StartServices(r, force) ==
  /\ Free(r) /\ Alone
  /\ LET s == [Fresh(r, "services", NoPaymentId) EXCEPT !.av.force = force]
     IN Commit(r, fetchServicesCached(s))
  /\ UNCHANGED <<paymentVars, tokenCache, servicesCache>>

\* Date.now() advances by a short step.
TickShort ==
  /\ now + ShortTick <= MaxShortNow
  /\ now' = now + ShortTick
  /\ answered' = IdleSlot
  /\ UNCHANGED <<servicesCache, probe, router, registered, mollieKeySet, secretSet, tokenCache,
                 pendingBookingsByPaymentId, processedPayments, payStatus,
                 reservations, reportedPaid, okDone, h>>

\* The provider answers with a catalog of one item.
ServicesAnswers == {a \in CatalogAnswers : Len(a.catalog) <= 1}

NextServices ==
  \/ \E r \in Handlers, force \in BOOLEAN : StartServices(r, force)
  \/ \E r \in Handlers, out \in {"token", "noToken", "throw"} : LoginReturn(r, out)
  \/ \E r \in Handlers, a \in ServicesAnswers : CatalogEventListReturn(r, a.out, a.catalog)
  \/ \E r \in Handlers, a \in ServicesAnswers :
       CatalogPublicEventsReturn(r, a.out, a.catalog)
  \/ \E r \in Handlers, a \in ServicesAnswers :
       CatalogServiceListReturn(r, a.out, a.catalog)
  \/ \E r \in Handlers, a \in ServicesAnswers :
       CatalogAdminServicesReturn(r, a.out, a.catalog)
  \/ \E a \in BOOLEAN : PurgeCache(a)
  \/ TickShort

SpecServices == InitAvail /\ [][NextServices]_vars

\* ------------------------------------- normalizeTimeMatrix on its own
\* One list of times per date, and the forms in which the provider may send
\* that very list.
Shapes == {"strings", "timeObjects", "startTimeObjects", "objectOfStrings",
           "objectOfTimeObjects", "objectOfArrays"}

EncodeList(times, shape) ==
  LET n == Len(times) IN
  CASE shape = "strings" ->
         ArrayValue([i \in 1..n |-> StringEntry(times[i])])
    [] shape = "timeObjects" ->
         ArrayValue([i \in 1..n |-> ObjectEntry(times[i], 0)])
    [] shape = "startTimeObjects" ->
         ArrayValue([i \in 1..n |-> ObjectEntry(0, times[i])])
    [] shape = "objectOfStrings" ->
         ObjectValue([i \in 1..n |-> StringEntry(times[i])])
    [] shape = "objectOfTimeObjects" ->
         ObjectValue([i \in 1..n |-> ObjectEntry(times[i], 0)])
    [] shape = "objectOfArrays" ->
         ObjectValue([i \in 1..n |-> ArrayEntry(<<StringEntry(times[i])>>)])

Encode(input, shape) ==
  [i \in 1..Len(input) |->
     [date |-> input[i].date, value |-> EncodeList(input[i].times, shape)]]

\* Matrices of at most two dates, each date named once.
PlainMatrices ==
  {m \in SeqsUpTo([date : Days, times : SeqsUpTo(Times, MaxLen)], 2) :
     \A i, j \in 1..Len(m) : i # j => m[i].date # m[j].date}

InitMatrix ==
  /\ Boot
  /\ mollieKeySet /\ secretSet
  /\ probe \in [input : PlainMatrices, shape : {"none"}, out : {<<>>}]

\* normalizeTimeMatrix is applied to the list in one of its forms.
ApplyNormalize(shape) ==
  /\ shape # probe.shape
  /\ probe' = [probe EXCEPT !.shape = shape,
                            !.out = normalizeTimeMatrix(Encode(probe.input, shape))]
  /\ UNCHANGED <<mollieKeySet, secretSet, tokenCache, now,
                 pendingBookingsByPaymentId, processedPayments, payStatus,
                 reservations, reportedPaid, okDone, h, answered, servicesCache,
                 registered, router>>

NextMatrix == \E shape \in Shapes : ApplyNormalize(shape)

SpecMatrix == InitMatrix /\ [][NextMatrix]_vars

\* ===================================================================== claims
PaymentHandlers == {"webhook", "finalize"}
InFlight == {r \in Handlers : h[r].pc # "idle"}
\* The handler records to judge: those in flight and the one just answered.
Records == {h[r] : r \in InFlight} \cup {answered}

\* C1: for every payment id at most one upstream booking call creates a
\* reservation, whatever the deliveries and the upstream outcomes are.
AtMostOneReservationPerPayment ==
  \A p \in PaymentIds : reservations[p] <= 1

\* C2: two handlers of the same payment id are never both past the
\* processedPayments check and inside createSimplyBookBooking.
Booking(s) ==
  s.pc \in {"login", "lookup", "createClient", "units", "book", "bookSession", "confirm"}

SerializedPerPaymentId ==
  \A r1, r2 \in Handlers :
    (/\ r1 # r2
     /\ h[r1].kind \in PaymentHandlers /\ h[r2].kind \in PaymentHandlers
     /\ h[r1].pid = h[r2].pid)
    => ~(Booking(h[r1]) /\ Booking(h[r2]))

WebhookSecondDelivery(s) == s.kind = "webhook" /\ s.afterOk

WebhookRedeliveryNoEffect ==
  /\ [](/\ \A r \in Handlers : ~WebhookSecondDelivery(h[r])
        /\ (answered.kind = "webhook" /\ answered.resp.body = "OK") =>
             Count(answered.calls, {"book"}) = 1
        /\ WebhookSecondDelivery(answered) =>
             /\ answered.resp = [code |-> 200, body |-> "Already processed"]
             /\ answered.calls = <<>>)
  /\ [][WebhookSecondDelivery(answered') =>
          /\ processedPayments' = processedPayments
          /\ pendingBookingsByPaymentId' = pendingBookingsByPaymentId
          /\ reservations' = reservations]_vars

WebhookTwice ==
  /\ WebhookSecondDelivery(answered)
  /\ answered.resp.code = 200
  /\ payStatus[answered.pid] = "paid"
  /\ pendingBookingsByPaymentId[answered.pid] # "absent"

\* C5: a webhook or finalize handler issues a booking call only after
\* payments.get has answered paid for its payment id in this very handler, and
\* no reservation exists for a payment id the provider has not reported paid.
BookOnlyAfterProviderPaid ==
  /\ \A s \in Records :
       (s.kind \in PaymentHandlers /\ Count(s.calls, BookingCalls) > 0) =>
         /\ s.calls[1] = "payments.get"
         /\ s.provStatus = "paid"
         /\ s.pid \in reportedPaid
  /\ \A p \in PaymentIds : reservations[p] > 0 => p \in reportedPaid

WebhookBooksPaid ==
  \E r \in Handlers :
    /\ h[r].kind = "webhook" /\ h[r].pc = "book"
    /\ h[r].provStatus = "paid"

\* C6: a valid create-booking request that carries a payment object with an
\* amount never reaches the upstream booking procedure.
PaymentTermsNeverBook ==
  \A s \in Records :
    (s.kind = "create" /\ s.terms # "none") => Count(s.calls, BookingCalls) = 0

\* C7: once a payment id is in processedPayments its pending record is gone.
PendingConsumed ==
  \A p \in processedPayments : pendingBookingsByPaymentId[p] = "absent"

\* C8: a webhook or finalize handler whose booking calls all failed answers
\* with a failure and does not add the payment id to processedPayments.
BookingFailed(s) ==
  /\ "book" \in {s.calls[i] : i \in 1..Len(s.calls)}
  /\ ~s.reserved

BookingFailureSurfaced ==
  (answered.kind \in PaymentHandlers /\ BookingFailed(answered)) =>
    /\ answered.resp.code >= 400
    /\ ~answered.added
    /\ answered.pid \notin processedPayments

\* C9: the webhook answers 200 for a payment the provider reports as not paid,
\* calls the scheduling provider not at all and leaves processedPayments and
\* pendingBookingsByPaymentId as they are.
NotPaid(s) == s.provStatus \in PayStatuses \ {"paid"}

WebhookAcksNotPaid ==
  /\ [](/\ \A r \in Handlers : ~(h[r].kind = "webhook" /\ NotPaid(h[r]))
        /\ (answered.kind = "webhook" /\ NotPaid(answered)) =>
             /\ answered.resp.code = 200
             /\ Count(answered.calls, SimplyBookCalls) = 0
             /\ ~answered.added)
  /\ [][(answered'.kind = "webhook" /\ NotPaid(answered')) =>
          /\ processedPayments' = processedPayments
          /\ pendingBookingsByPaymentId' = pendingBookingsByPaymentId]_vars

WebhookSeesFailedPayment ==
  /\ answered.kind = "webhook"
  /\ answered.provStatus = "failed"
  /\ answered.resp.code = 200

\* C10: finalize for a payment that is not paid, or that is paid but has no
\* pending request, answers with an error, makes no booking call and leaves
\* processedPayments and pendingBookingsByPaymentId as they are.
Mismatch(s) ==
  /\ s.kind = "finalize"
  /\ \/ NotPaid(s)
     \/ s.provStatus = "paid" /\ pendingBookingsByPaymentId[s.pid] = "absent"

FinalizeMismatchReported ==
  /\ [](/\ \A r \in Handlers : ~Mismatch(h[r])
        /\ Mismatch(answered) =>
             /\ answered.resp.code = 400
             /\ Count(answered.calls, SimplyBookCalls) = 0
             /\ ~answered.added)
  /\ [][Mismatch(answered') =>
          /\ processedPayments' = processedPayments
          /\ pendingBookingsByPaymentId' = pendingBookingsByPaymentId]_vars

FinalizePaidWithoutPending ==
  /\ answered.kind = "finalize"
  /\ answered.provStatus = "paid"
  /\ pendingBookingsByPaymentId[answered.pid] = "absent"
  /\ answered.resp.code = 400

\* A handler record whose getSimplyBookTokenCached call found a usable token.
FoundUsableToken(s) == s.readToken /\ s.readAge < TokenTtl

\* C11: a call of getSimplyBookTokenCached made while the cache holds a token
\* younger than the TTL goes on with the cached token and issues no login call.
TokenReusedWithinTtl ==
  \A s \in Records :
    (s.kind = "units" /\ FoundUsableToken(s)) =>
      /\ Count(s.calls, {"login"}) = 0
      /\ s.calls # <<>> /\ s.calls[1] = "getAvailableUnits"

TokenReusedLater ==
  /\ answered.kind = "units" /\ answered.resp.code = 200
  /\ answered.readToken
  /\ answered.readAge > 0 /\ answered.readAge < TokenTtl
  /\ Count(answered.calls, {"login"}) = 0

\* C18: a login that fails leaves tokenCache as it was, and a call that finds
\* no usable token in the cache starts with a login call of its own.
LoginFailed(s) ==
  /\ s.kind = "units" /\ s.resp.code = 500
  /\ s.calls # <<>> /\ s.calls[Len(s.calls)] = "login"

NoNegativeCaching ==
  /\ [](\A s \in Records :
         (s.kind = "units" /\ s.calls # <<>> /\ ~FoundUsableToken(s)) =>
           s.calls[1] = "login")
  /\ [][LoginFailed(answered') => tokenCache' = tokenCache]_vars

LoginFailedOnExpiredToken ==
  /\ LoginFailed(answered)
  /\ tokenCache.token /\ now - tokenCache.fetchedAt >= TokenTtl
  /\ \E r \in Handlers : h[r].pc = "login" /\ h[r].readToken

\* C19: whatever the interleaving of requests, clock steps and cache purges, a
\* login call is issued only in a step that finds no token or a token of age
\* TTL or more in the cache, and a token is taken from the cache only while its
\* age is below the TTL.
IssuesLogin(r) ==
  Count(h'[r].calls, {"login"}) > Count(h[r].calls, {"login"})

ReturnsCached(r) ==
  /\ h[r].pc = "idle" /\ h'[r].kind = "units"
  /\ h'[r].calls = <<"getAvailableUnits">>

TokenFetchOnlyWhenStale ==
  [][\A r \in Handlers :
       /\ IssuesLogin(r) =>
            (~tokenCache.token \/ now - tokenCache.fetchedAt >= TokenTtl)
       /\ ReturnsCached(r) =>
            (tokenCache.token /\ now - tokenCache.fetchedAt < TokenTtl)]_vars

ExpiredTokenRefetched ==
  \E r, q \in Handlers :
    /\ h[r].pc = "login" /\ h[r].readToken /\ h[r].readAge >= TokenTtl
    /\ h[q].pc = "availableUnits" /\ FoundUsableToken(h[q])

\* C16: normalizeTimeMatrix gives one and the same result for a list of times
\* per date whether the list arrives as an array of strings, as an array of
\* objects carrying time or start_time, or as an object of such values.
ExpectedDays(input) ==
  LET kept == SelectSeq(input, LAMBDA e : e.times # <<>>)
  IN [i \in 1..Len(kept) |-> Day(kept[i].date, SortTimes(kept[i].times))]

ShapeInvariance ==
  probe.shape # "none" =>
    /\ probe.out = normalizeTimeMatrix(Encode(probe.input, "strings"))
    /\ probe.out = ExpectedDays(probe.input)

NestedObjectNormalized ==
  /\ probe.shape = "objectOfTimeObjects"
  /\ Len(probe.out) = 2
  /\ probe.out[1].times = <<1, 2>>
  /\ \E i \in 1..Len(probe.input) : probe.input[i].times = <<2, 1>>

\* ------------------------------------------------ availability claims
AvailabilityAnswered(s, kind) ==
  s.kind = kind /\ s.resp = [code |-> 200, body |-> "availability"]

FallbackCalled(s) == Count(s.calls, {"getEventListPublic"}) > 0

\* C12: /api/service-availability calls the event-list fallback exactly when
\* the matrix call threw or its result normalized to no date, and the slots of
\* a fallback answer are slots of events that carry the requested identifier
\* and a date within [dateFrom, dateTo].
FallbackOnlyWhenMatrixEmpty ==
  /\ \A s \in Records :
       s.kind = "service" =>
         /\ s.av.matrixOut = "none" => ~FallbackCalled(s)
         /\ s.av.matrixOut # "none" =>
              (FallbackCalled(s) <=>
                 (s.av.matrixOut \in {"throw", "null"} \/ s.av.matrixDates = 0))
  /\ (AvailabilityAnswered(answered, "service") /\ FallbackCalled(answered)) =>
       SlotSet(answered.av.availability) \subseteq answered.av.justified

FallbackAnswerFiltered ==
  /\ AvailabilityAnswered(answered, "service")
  /\ answered.av.matrixOut = "throw"
  /\ answered.av.eventsOut = "list"
  /\ answered.av.reqFrom = DateOf(1) /\ answered.av.reqTo = DateOf(1)
  /\ answered.av.availability = <<Day(1, <<1, 2>>)>>

\* C13: an error of the fallback event-list call, thrown or answered as a
\* structured error, ends /api/service-availability with an error response.
FallbackErrorIsTerminal ==
  (answered.kind = "service" /\ answered.av.eventsOut \in {"throw", "error"}) =>
    answered.resp.code >= 400

\* C14: an availability request whose dateFrom lies after its dateTo is
\* answered 4xx and issues no upstream call, the token login included.
RangeReversed(s) ==
  /\ s.kind \in {"service", "category"}
  /\ s.av.reqFrom.form = "date" /\ s.av.reqTo.form = "date"
  /\ s.av.reqFrom.day > s.av.reqTo.day

ReversedRangeRejectedFirst ==
  \A s \in Records :
    RangeReversed(s) =>
      /\ s.calls = <<>>
      /\ s.pc = "done" /\ s.resp.code >= 400 /\ s.resp.code < 500

\* C15: /api/category-availability answers with the union of the slots of the
\* member items: a date is returned exactly if some member item has a slot on
\* it, with exactly the times the member items have on it.
DatesOf(days) == {days[i].date : i \in 1..Len(days)}

CategoryIsUnion ==
  AvailabilityAnswered(answered, "category") =>
    /\ SlotSet(answered.av.availability) = answered.av.seen
    /\ DatesOf(answered.av.availability) = {p[1] : p \in answered.av.seen}
    /\ Len(answered.av.availability) = Cardinality(DatesOf(answered.av.availability))

TwoItemsTwoDates ==
  /\ AvailabilityAnswered(answered, "category")
  /\ Count(answered.calls, {"getStartTimeMatrix"}) = 2
  /\ Len(answered.av.availability) = 2
  /\ Cardinality(answered.av.seen) > 2

\* C17: every availability answer lists its dates in strictly ascending order,
\* the times of each date in strictly ascending order, and available_slots
\* equal to the number of times.
StrictlyAscending(seq) == \A i \in 1..Len(seq) - 1 : seq[i] < seq[i + 1]

AvailabilityOrdered ==
  (AvailabilityAnswered(answered, "service") \/ AvailabilityAnswered(answered, "category")) =>
    LET days == answered.av.availability IN
    /\ StrictlyAscending([i \in 1..Len(days) |-> days[i].date])
    /\ \A i \in 1..Len(days) :
         /\ StrictlyAscending(days[i].times)
         /\ days[i].available_slots = Len(days[i].times)

\* ---------------------------------------------- booking confirmation
BookingReported(s) ==
  /\ s.kind \in {"webhook", "finalize", "create"}
  /\ s.resp.code = 200 /\ s.reserved

OneBookingCallPerRequest ==
  \A s \in Records : Count(s.calls, BookingCalls) <= 1

\* Position of the first call of the log that bears one of the names, 0 if
\* there is none.
FirstCall(seq, names) ==
  IF Count(seq, names) = 0 THEN 0
  ELSE CHOOSE i \in 1..Len(seq) :
         seq[i] \in names /\ \A j \in 1..(i - 1) : seq[j] \notin names

LookupNeverFatal ==
  \A s \in Records :
    /\ s.client \in {"none", "found"} => Count(s.calls, {"postClient"}) = 0
    /\ s.client \in {"empty", "throw", "created"} =>
         /\ Count(s.calls, {"postClient"}) = 1
         /\ FirstCall(s.calls, {"postClient"}) = FirstCall(s.calls, {"getClients"}) + 1
    /\ (s.pc = "done" /\ s.client \in {"empty", "throw"}) => s.clientFailed
    /\ (s.pc # "done" /\ s.client \in {"empty", "throw"}) => s.pc = "createClient"

LookupThrewClientCreated ==
  \E r \in Handlers :
    /\ h[r].kind = "finalize" /\ h[r].pc = "createClient"
    /\ h[r].client = "throw"
    /\ h[r].calls[Len(h[r].calls)] = "postClient"

\* C24: a booking request is kept in pendingBookingsByPaymentId, under the id
\* the payment provider returned, exactly if the payment session was created;
\* a payment creation that fails leaves pendingBookingsByPaymentId and
\* processedPayments as they are and no booking call is made
\* (/api/create-booking and /api/initiate-booking-payment).
PaymentCreationAnswered(s) ==
  /\ s.kind \in {"create", "initiate"}
  /\ Count(s.calls, {"payments.create"}) = 1

PendingStoredIffSessionCreated ==
  [][/\ \A p \in PaymentIds :
          pendingBookingsByPaymentId'[p] # pendingBookingsByPaymentId[p] =>
            /\ PaymentCreationAnswered(answered') /\ answered'.pid = p
            /\ payStatus[p] = "none" /\ payStatus'[p] = "open"
     /\ PaymentCreationAnswered(answered') =>
          /\ answered'.calls = <<"payments.create">>
          /\ processedPayments' = processedPayments
          /\ reservations' = reservations
          /\ IF answered'.pid \in PaymentIds
             THEN /\ payStatus[answered'.pid] = "none"
                  /\ pendingBookingsByPaymentId' =
                       [pendingBookingsByPaymentId EXCEPT
                          ![answered'.pid] = answered'.shape]
             ELSE /\ answered'.resp.code = 500
                  /\ pendingBookingsByPaymentId' = pendingBookingsByPaymentId]_vars

PaymentCreationFailed ==
  /\ answered.kind = "initiate" /\ answered.resp.code = 500
  /\ answered.calls = <<"payments.create">>
  /\ answered.pid = NoPaymentId
  /\ \E p \in PaymentIds : pendingBookingsByPaymentId[p] # "absent"

\* ------------------------------------------------------- the RPC client
\* C25: an upstream answer that carries an error member is raised to the
\* caller of callAdminRpc, never returned as a value: a handler whose
\* bookSession call was answered with an error member has left
\* createSimplyBookBooking through its catch block.
RpcErrorRaised ==
  \A s \in Records :
    s.sessOut = "error" =>
      /\ s.pc = "done" /\ s.resp = ErrorResp(s.kind)
      /\ ~s.added

\* ------------------------------------------------- the services catalog
\* C26: a request that has seen getSimplyBookTokenCached fail issues no
\* further call, a login least of all, and ends with an error.
AuthFailureIsFatal ==
  \A s \in Records :
    s.authFailed =>
      /\ s.pc = "done" /\ s.resp.code >= 400
      /\ s.calls[Len(s.calls)] = "login"
      /\ Count(s.calls, {"login"}) = 1

\* A request for the catalog that is answered from the cache, and one that
\* goes upstream, in the step that takes the request.
AnsweredFromCache == answered'.kind = "services" /\ answered'.calls = <<>>
GoesUpstream(r) == h[r].pc = "idle" /\ h'[r].kind = "services"

\* C27: fetchServicesCached(false) issues no upstream call while the cache
\* holds a catalog younger than the TTL of 5 minutes; on a cache miss, on an
\* entry of age 5 minutes or more and on a forced refresh it queries upstream;
\* a request that reads the cached catalog leaves the cache as it is, and the
\* cache changes only when a method has answered with a catalog or on a purge.
CatalogFetchedOnlyWhenStale ==
  [][/\ AnsweredFromCache =>
          /\ ~answered'.av.force
          /\ servicesCache.data # <<>>
          /\ now - servicesCache.fetchedAt < ServicesTtl
          /\ answered'.resp.code = 200
          /\ servicesCache' = servicesCache
     /\ \A r \in Handlers :
          GoesUpstream(r) =>
            /\ \/ h'[r].av.force
               \/ servicesCache.data = <<>>
               \/ now - servicesCache.fetchedAt >= ServicesTtl
            /\ h'[r].calls # <<>>
            /\ servicesCache' = servicesCache
     /\ servicesCache' # servicesCache =>
          \/ answered'.kind = "purge" /\ servicesCache' = NoServices
          \/ /\ answered'.kind = "services" /\ answered'.calls # <<>>
             /\ servicesCache'.data # <<>> /\ servicesCache'.fetchedAt = now]_vars

ForcedRefreshOfFreshCatalog ==
  \E r \in Handlers :
    /\ h[r].kind = "services" /\ h[r].av.force
    /\ h[r].pc = "catalogEventList"
    /\ ServicesFresh /\ now > servicesCache.fetchedAt

\* The type the cached catalog holds for an item, "none" if it holds none.
CachedType(item) ==
  IF \E i \in 1..Len(servicesCache.data) : servicesCache.data[i].id = item
  THEN LET i == CHOOSE i \in 1..Len(servicesCache.data) :
                  servicesCache.data[i].id = item
       IN servicesCache.data[i].type
  ELSE "none"

\* C28: the availability of an item that the cached catalog holds as an event
\* is asked of the events listing, never of the start-time matrix.
RoutedByKind ==
  \A r \in Handlers :
    (h[r].pc = "matrix" /\ h[r].av.item # 0) => CachedType(h[r].av.item) # "event"

\* C29: an event of the fallback list whose date or time is missing or
\* malformed is left out and never makes the request fail: the request is
\* answered with the slots of all well-formed events of the requested item.
MalformedEventSkipped ==
  (answered.kind = "service" /\ answered.av.eventsOut = "list") =>
    /\ AvailabilityAnswered(answered, "service")
    /\ answered.av.justified \subseteq SlotSet(answered.av.availability)

\* C30: a request that names no end date asks the provider for the range that
\* ends 14 days after its dateFrom.
DefaultRangeFromDateFrom ==
  \A s \in Records :
    (/\ s.kind = "service" /\ s.av.reqTo.form = "absent"
     /\ Count(s.calls, {"getStartTimeMatrix"}) > 0)
    => DateTo(s) = DateFrom(s) + 14

\* ------------------------------------------------- processedPayments
\* C34: no step removes an id from processedPayments, and an id is added only
\* in the step that ends a webhook or finalize handler which has read the
\* status paid for that id from the payment provider and has found a pending
\* booking request under it.
ProcessedOnlyGrows ==
  [][/\ processedPayments \subseteq processedPayments'
     /\ \A p \in processedPayments' \ processedPayments :
          /\ answered'.kind \in PaymentHandlers /\ answered'.pid = p
          /\ answered'.calls[1] = "payments.get"
          /\ answered'.provStatus = "paid"
          /\ answered'.shape \in ReqShapes
          /\ answered'.shape = pendingBookingsByPaymentId[p]]_vars

FinalizeMarkedProcessed ==
  /\ answered.kind = "finalize" /\ answered.added
  /\ answered.pid \in processedPayments
  /\ answered.provStatus = "paid"

\* C35: a webhook or finalize handler that has finished after one of its
\* booking calls created a reservation has put the payment id into
\* processedPayments, a failing confirmBooking call notwithstanding.
ReservedImpliesProcessed ==
  (answered.kind \in PaymentHandlers /\ answered.reserved) =>
    answered.pid \in processedPayments

\* C36: the webhook answers 2xx for a paid payment with a pending booking
\* request only when a reservation exists for it, so that redelivery until a
\* 2xx answer ends with the booking made and the id in processedPayments.
AckedOnlyWhenReserved ==
  (/\ answered.kind = "webhook" /\ answered.provStatus = "paid"
   /\ answered.shape \in ReqShapes
   /\ answered.resp.code >= 200 /\ answered.resp.code < 300)
  => /\ reservations[answered.pid] > 0
     /\ answered.pid \in processedPayments

\* C37: /api/category-availability answers with an availability only when
\* every member item has been resolved; when the fallback call of a member
\* item throws, the request is answered 500 and carries no availability, that
\* of the member items resolved before included.
CategoryFailsAsAWhole ==
  answered.kind = "category" =>
    /\ answered.av.eventsOut = "throw" =>
         /\ answered.resp = ErrorResp("category")
         /\ answered.av.availability = <<>>
    /\ AvailabilityAnswered(answered, "category") =>
         /\ answered.av.todo = <<>>
         /\ answered.av.eventsOut # "throw"

SecondMemberFallbackThrew ==
  /\ answered.kind = "category" /\ answered.resp.code = 500
  /\ answered.av.eventsOut = "throw"
  /\ Count(answered.calls, {"getStartTimeMatrix"}) = 2
  /\ answered.av.seen # {}

\* ======================================================= process restart
\* The process ends and src/api/index.js is loaded again: the module-level
\* initialisers (lines 37-43) run, the requests in flight are gone.  The
\* providers keep what they hold.
Restart ==
  /\ \/ \E p \in PaymentIds : pendingBookingsByPaymentId[p] # "absent"
     \/ processedPayments # {}
     \/ tokenCache.token
  /\ tokenCache' = [token |-> FALSE, fetchedAt |-> 0]
  /\ servicesCache' = NoServices
  /\ pendingBookingsByPaymentId' = [p \in PaymentIds |-> "absent"]
  /\ processedPayments' = {}
  /\ h' = [r \in Handlers |-> IdleSlot]
  /\ answered' = IdleSlot
  /\ UNCHANGED <<probe, router, registered, mollieKeySet, secretSet, now,
                 payStatus, reservations, reportedPaid, okDone>>

\* Requests are taken one at a time.
NextRestart ==
  \/ \E r \in Handlers, p \in PaymentIds \cup {NoPaymentId}, b \in {"none", "paid"} :
       Alone /\ StartWebhook(r, p, b)
  \/ \E r \in Handlers, p \in PaymentIds \cup {NoPaymentId} :
       Alone /\ StartFinalize(r, p)
  \/ \E r \in Handlers, b \in ReqShapes : Alone /\ StartInitiate(r, b)
  \/ \E r \in Handlers, out \in {"payment", "null", "throw"} : GetPaymentReturn(r, out)
  \/ \E r \in Handlers, out \in {"created", "createdNoLink", "throw"} :
       CreatePaymentReturn(r, out)
  \/ \E r \in Handlers, out \in {"token", "noToken", "throw"} : LoginReturn(r, out)
  \/ \E r \in Handlers, out \in {"found", "empty", "throw"} : LookupReturn(r, out)
  \/ \E r \in Handlers, out \in {"created", "noId", "throw"} : CreateClientReturn(r, out)
  \/ \E r \in Handlers, out \in {"units", "throw"} : UnitsReturn(r, out)
  \/ \E r \in Handlers, out \in {"ok", "error", "throw"}, rc \in BOOLEAN, n \in 0..MaxSub :
       BookReturn(r, out, rc, n)
  \/ \E r \in Handlers, out \in {"ok", "error", "throw"}, rc \in BOOLEAN, n \in 0..MaxSub :
       BookSessionReturn(r, out, rc, n)
  \/ \E r \in Handlers, out \in {"ok", "throw"} : ConfirmReturn(r, out)
  \/ \E p \in PaymentIds, st \in {"paid", "failed", "expired"} : PaymentSettles(p, st)
  \/ Restart

SpecRestart == Init /\ [][NextRestart]_vars

\* The payment ids whose booking request a restart has taken away.
LostIds == {p \in registered : pendingBookingsByPaymentId[p] = "absent"}

\* C33: a step that takes a stored booking request or a processed id away
\* empties both pendingBookingsByPaymentId and processedPayments; from then
\* on a webhook or finalize handler for a payment whose request was stored
\* before makes no call to the scheduling provider, does not add the id to
\* processedPayments, and, the payment being paid, the webhook answers 200
\* and finalize answers 400.
RestartLosesPendingAndProcessed ==
  /\ [][(\/ \E p \in PaymentIds : /\ pendingBookingsByPaymentId[p] # "absent"
                                 /\ pendingBookingsByPaymentId'[p] = "absent"
         \/ ~(processedPayments \subseteq processedPayments'))
        => /\ pendingBookingsByPaymentId' = [p \in PaymentIds |-> "absent"]
           /\ processedPayments' = {}]_vars
  /\ [](\A p \in LostIds : p \notin processedPayments)
  /\ [](\A s \in Records \cup {answered} :
          (s.kind \in PaymentHandlers /\ s.pid \in LostIds) =>
            /\ Count(s.calls, SimplyBookCalls) = 0
            /\ ~s.added /\ ~s.reserved
            /\ (s.pc = "done" /\ s.provStatus = "paid") =>
                 IF s.kind = "webhook"
                 THEN s.resp = [code |-> 200, body |-> "No pending booking attached"]
                 ELSE s.resp = [code |-> 400,
                                body |-> "No pending booking attached to paymentId"])

PaidWebhookAfterRestart ==
  /\ answered.kind = "webhook"
  /\ answered.pid \in LostIds
  /\ answered.provStatus = "paid"
  /\ answered.resp.code = 200
  /\ reservations[answered.pid] = 0
  /\ processedPayments = {}

\* ================================================ the RPC router (/api/sb)
\* Bodies of POST /book: with clientData and without it.
RouterBodies == {"complete", "noClientData"}

\* callSimplyBook(method, params), first await: axios.post(.../login).
RouterLogin(s) == [Call(s, "login") EXCEPT !.pc = "routerLogin"]

\* The method a handler hands to callSimplyBook.
RouterMethod(s) == IF s.kind = "routerBook" THEN "book" ELSE "confirmBooking"

\* Faulty variant: the webhook confirms whatever the status of the payment.
IsPaidAlways(status) == TRUE

\* payment.isPaid()
IsPaid(status) == status = "paid"

routerFrame == <<servicesCache, probe, registered, mollieKeySet, secretSet,
                 tokenCache, now, pendingBookingsByPaymentId, reservations>>

\* POST /book up to its first await.
StartRouterBook(r, body) ==
  /\ Free(r)
  /\ router.booked + Cardinality({q \in Handlers : h[q].kind = "routerBook"})
       < MaxRouterBookings
  /\ Commit(r, RouterLogin([Fresh(r, "routerBook", NoPaymentId) EXCEPT
                              !.shape = body]))
  /\ UNCHANGED <<routerFrame, router, payStatus, reportedPaid>>

\* POST /webhook/mollie up to its first await; a body without an id is
\* handed to payments.get all the same.
StartRouterWebhook(r, pid) ==
  /\ Free(r)
  /\ Commit(r, [Call(Fresh(r, "routerWebhook", pid), "payments.get") EXCEPT
                  !.pc = "routerGetPayment"])
  /\ UNCHANGED <<routerFrame, router, payStatus, reportedPaid>>

\* mollieClient.payments.get(paymentId) of the router's webhook has settled.
RouterGetPaymentReturn(r, out) ==
  /\ h[r].pc = "routerGetPayment"
  /\ out = "payment" => h[r].pid \in PaymentIds /\ payStatus[h[r].pid] # "none"
  /\ LET s == h[r] IN
       IF out = "payment"
       THEN /\ Commit(r,
                 LET s1 == [s EXCEPT !.provStatus = payStatus[s.pid]] IN
                 IF IsPaid(payStatus[s.pid])
                 THEN RouterLogin([s1 EXCEPT !.booking = router.meta[s.pid]])
                 ELSE Respond(s1, 200, "OK"))
            /\ reportedPaid' = IF payStatus[s.pid] = "paid"
                               THEN reportedPaid \cup {s.pid} ELSE reportedPaid
       ELSE Commit(r, Thrown(s)) /\ UNCHANGED reportedPaid
  /\ UNCHANGED <<routerFrame, router, payStatus>>

\* The login call of callSimplyBook has settled; the RPC call follows in the
\* same turn.
\*   out = "token": an answer without an error member
\*   out = "error": an answer with an error member
\*   out = "throw": the call rejects
RouterLoginReturn(r, out) ==
  /\ h[r].pc = "routerLogin" /\ ~h[r].hung
  /\ LET s == h[r]
         confirms == out = "token" /\ s.kind = "routerWebhook"
                       /\ s.booking \in DOMAIN router.confirmCalls
     IN /\ confirms => router.confirmCalls[s.booking] < MaxConfirmCalls
        /\ Commit(r, IF out = "token"
                     THEN [Call(s, RouterMethod(s)) EXCEPT !.pc = "routerCall"]
                     ELSE Thrown(s))
        /\ router' = IF confirms
                     THEN [router EXCEPT !.confirmCalls[s.booking] = @ + 1]
                     ELSE router
  /\ UNCHANGED <<routerFrame, payStatus, reportedPaid>>

\* The RPC call of callSimplyBook has settled.  After book the handler reads
\* clientData.name and calls mollieClient.payments.create; after
\* confirmBooking it answers OK.
RouterCallReturn(r, out) ==
  /\ h[r].pc = "routerCall" /\ ~h[r].hung
  /\ LET s == h[r] IN
       IF out = "ok" /\ s.kind = "routerBook"
       THEN LET s1 == [s EXCEPT !.booking = router.booked + 1, !.reserved = TRUE] IN
            /\ router' = [router EXCEPT !.booked = @ + 1]
            /\ Commit(r, IF s.shape = "noClientData" THEN Thrown(s1)
                         ELSE [Call(s1, "payments.create") EXCEPT
                                 !.pc = "routerCreatePayment"])
       ELSE /\ Commit(r, IF out = "ok" THEN Respond(s, 200, "OK") ELSE Thrown(s))
            /\ UNCHANGED router
  /\ UNCHANGED <<routerFrame, payStatus, reportedPaid>>

\* mollieClient.payments.create of POST /book has settled.
RouterCreatePaymentReturn(r, out) ==
  /\ h[r].pc = "routerCreatePayment"
  /\ IF out = "created"
     THEN \E p \in UnusedIds :
            /\ \A q \in UnusedIds : p <= q
            /\ payStatus' = [payStatus EXCEPT ![p] = "open"]
            /\ router' = [router EXCEPT !.meta[p] = h[r].booking]
            /\ Commit(r, Respond([h[r] EXCEPT !.pid = p], 200, "paymentUrl"))
     ELSE /\ Commit(r, Thrown(h[r]))
          /\ UNCHANGED <<payStatus, router>>
  /\ UNCHANGED <<routerFrame, reportedPaid>>

\* The scheduling provider accepts a connection of callSimplyBook and never
\* answers it: neither axios.post carries a timeout.
UpstreamHangs(r) ==
  /\ h[r].pc \in {"routerLogin", "routerCall"} /\ ~h[r].hung
  /\ h' = [h EXCEPT ![r].hung = TRUE]
  /\ answered' = IdleSlot
  /\ UNCHANGED <<routerFrame, router, payStatus, reportedPaid, processedPayments,
                 okDone>>

NextRouter ==
  \/ \E r \in Handlers, b \in RouterBodies : StartRouterBook(r, b)
  \/ \E r \in Handlers, p \in PaymentIds \cup {NoPaymentId} : StartRouterWebhook(r, p)
  \/ \E r \in Handlers, out \in {"payment", "throw"} : RouterGetPaymentReturn(r, out)
  \/ \E r \in Handlers, out \in {"token", "error", "throw"} : RouterLoginReturn(r, out)
  \/ \E r \in Handlers, out \in {"ok", "error", "throw"} : RouterCallReturn(r, out)
  \/ \E r \in Handlers, out \in {"created", "throw"} : RouterCreatePaymentReturn(r, out)
  \/ \E r \in Handlers : UpstreamHangs(r)
  \/ \E p \in PaymentIds, st \in {"paid", "failed", "expired"} : PaymentSettles(p, st)

SpecRouter == Init /\ [][NextRouter]_vars

\* Every call that is not left hanging settles.
SpecRouterLive ==
  /\ SpecRouter
  /\ \A r \in Handlers :
       /\ WF_vars(\E out \in {"payment", "throw"} : RouterGetPaymentReturn(r, out))
       /\ WF_vars(\E out \in {"token", "error", "throw"} : RouterLoginReturn(r, out))
       /\ WF_vars(\E out \in {"ok", "error", "throw"} : RouterCallReturn(r, out))
       /\ WF_vars(\E out \in {"created", "throw"} : RouterCreatePaymentReturn(r, out))

\* C31: every request handler eventually sends a response, whatever the
\* upstream does: a handler of the router that is in flight is answered.
RouterHandlersRespond ==
  \A r \in Handlers : (h[r].pc # "idle") ~> (h[r].pc = "idle")

\* C32: however often the paid payment of a booking is delivered to the
\* router's webhook, at most one confirmBooking call is issued for the booking.
ConfirmedAtMostOnce ==
  \A b \in DOMAIN router.confirmCalls : router.confirmCalls[b] <= 1

\* C38: a router webhook issues confirmBooking only after payments.get
\* answered paid for the payment whose metadata names the booking; POST /book
\* calls payments.create only after its book call succeeded; a reservation
\* once made stays, and POST /book whose payment creation failed after the
\* reservation answers 500.
RouterFlowOrdered ==
  /\ [](\A s \in Records \cup {answered} :
          /\ (s.kind = "routerWebhook" /\ Count(s.calls, {"login"}) > 0) =>
               /\ s.calls[1] = "payments.get"
               /\ s.provStatus = "paid"
               /\ s.pid \in reportedPaid
               /\ s.booking = router.meta[s.pid]
          /\ (s.kind = "routerBook" /\ Count(s.calls, {"payments.create"}) > 0) =>
               /\ s.reserved
               /\ s.booking \in 1..router.booked
               /\ FirstCall(s.calls, {"book"}) < FirstCall(s.calls, {"payments.create"})
          /\ (s.kind = "routerBook" /\ s.pc = "done" /\ s.reserved
                /\ s.pid = NoPaymentId) =>
               /\ s.resp.code = 500
               /\ s.booking \in 1..router.booked)
  /\ [](\A b \in DOMAIN router.confirmCalls :
          router.confirmCalls[b] > 0 =>
            \E p \in reportedPaid : router.meta[p] = b)
  /\ [](\A p \in PaymentIds :
          router.meta[p] # 0 => router.meta[p] \in 1..router.booked)
  /\ [][router'.booked >= router.booked]_vars

RouterPaymentCreationFailed ==
  /\ answered.kind = "routerBook"
  /\ answered.shape = "complete"
  /\ answered.reserved
  /\ answered.calls = <<"login", "book", "payments.create">>
  /\ answered.resp.code = 500
  /\ router.booked >= answered.booking

====
